---- MODULE Spec2Model ----
(***************************************************************************)
(* The HTML normalisation and asset-inlining pipeline of the Word/Excel    *)
(* to WordPress uploader: inline_assets_and_clean of main.py, step by      *)
(* step, and the resolver of main_mac_ready.py.                            *)
(*                                                                         *)
(* A path is the sequence of its pathlib parts (<<"/", "r", "a.png">>);    *)
(* a reference (src / href / url) is the sequence of the parts of the      *)
(* attribute string, <<>> when the attribute is absent and <<"">> when it  *)
(* is the empty string.  The file system is the set of existing regular    *)
(* files and the set of existing directories; it is only read.             *)
(* A parsed document is a sequence of nodes; a node carries its tag, its   *)
(* src/href reference, its rel, its inline style (the declarations in      *)
(* order), its raw text (the tokens of a text / comment / style node) and  *)
(* its children.                                                           *)
(***************************************************************************)
EXTENDS Integers, Sequences, FiniteSets, TLC

\* ---------------------------------------------------------------- bounds
MaxBody == 2        \* most children of the body of a drawn document
MaxRuns == 2        \* invocations of main_mac_ready._inline_assets_and_clean
MaxDecls == 2       \* most declarations of a drawn inline style
MaxCalls == 2       \* most sanitizer functions applied to one style in a row
MaxBytes == 3       \* most bytes of a file handed to a reader
MaxClicks == 3      \* most clicks on Update and Undo in the upload and undo flow
MaxProtects == 2    \* most calls of protect_cleartext
MaxSecret == 2      \* most characters of a protected secret

\* ------------------------------------------------------- paths and files
None == <<>>

root_dir == <<"/", "r">>
html_path == root_dir \o <<"doc.htm">>
StemFiles == root_dir \o <<"doc_files">>

Parent(p) == SubSeq(p, 1, Len(p) - 1)
Name(src) == <<src[Len(src)]>>
Falsy(src) == src = <<>> \/ src = <<"">>
Join(dir, src) == IF src # <<>> /\ src[1] = "/" THEN src ELSE dir \o src

VARIABLES files, dirs, soup, sheet_body, pc, assets_dir, content_soup,
          sheet_path, content, inline_styles, css_bundle, bundled_css_text,
          wrapper, frag, stages, program, mac_runs, mac_out, mac_prev,
          el, st, calls, ui, raw_bytes, read_out,
          site, temp_backup, last_page_id, last_upload, undone, clicks,
          HAS_DPAPI, HAS_KEYRING, cred_file, keychain, issued, recovered,
          wp, workers, pending, page_combo, defaults, chk_remember, warned

vars == <<files, dirs, soup, sheet_body, pc, assets_dir, content_soup,
          sheet_path, content, inline_styles, css_bundle, bundled_css_text,
          wrapper, frag, stages, program, mac_runs, mac_out, mac_prev,
          el, st, calls, ui, raw_bytes, read_out,
          site, temp_backup, last_page_id, last_upload, undone, clicks,
          HAS_DPAPI, HAS_KEYRING, cred_file, keychain, issued, recovered,
          wp, workers, pending, page_combo, defaults, chk_remember, warned>>

inputs == <<files, dirs, soup, sheet_body, program>>
mac_vars == <<mac_runs, mac_out, mac_prev>>
\* the element handed to the style functions: its tag and inline style as
\* given (el), its inline style now (st), the functions applied so far (calls)
san_vars == <<el, st, calls>>
\* the window of the update flow (ui): the collaborators called so far, the
\* message boxes shown, the confirmation checkbox, the Undo button, the
\* backup file, the progress bar, the directories the flow created
upd_vars == <<ui>>
\* the bytes of a file handed to a reader (raw_bytes) and what the reader did (read_out)
rd_vars == <<raw_bytes, read_out>>
\* the upload and undo flow: the content of the pages of the site, the
\* backup file temp_backup.html, last_page_id, and for the properties the
\* most recent overwrite (last_upload), what the last Undo wrote (undone)
\* and the number of clicks on Update and Undo
undo_vars == <<site, temp_backup, last_page_id, last_upload, undone, clicks>>
\* the secret store: the backends present, the file whose functions are
\* called, the keychain entry, the tokens issued with their texts, and the
\* outcome of the last unprotect_to_cleartext
cred_vars == <<HAS_DPAPI, HAS_KEYRING, cred_file, keychain, issued, recovered>>
\* the login: the stored client (wp), the worker threads started by Log in,
\* the signals queued for the window's thread (pending), the pages in the
\* dropdown, the account in the defaults file, the "remember" checkbox, and
\* whether the warning about an empty field was shown
login_vars == <<wp, workers, pending, page_combo, defaults, chk_remember, warned>>
win_vars == <<undo_vars, cred_vars, login_vars>>
main_vars == <<pc, assets_dir, content_soup, sheet_path, content, inline_styles,
               css_bundle, bundled_css_text, wrapper, frag, stages>>

Exists(p) == p \in files \/ p \in dirs

Suffix(name) ==
  CASE name \in {"a.png"} -> ".png"
    [] name \in {"s.css", "t.css"} -> ".css"
    [] name \in {"sheet001.htm", "sheet002.htm", "doc.htm"} -> ".htm"
    [] OTHER -> ""

Mime(name) ==
  CASE Suffix(name) = ".png" -> "image/png"
    [] Suffix(name) = ".css" -> "text/css"
    [] Suffix(name) = ".htm" -> "text/html"
    [] OTHER -> "application/octet-stream"

data_uri_for(path) == <<"data:", Mime(path[Len(path)]), ";base64,">> \o path

IsDataUri(ref) == ref # <<>> /\ ref[1] = "data:"

\* ------------------------------------------------------------ the resolver
resolve_local_swapped(src) ==
  IF Falsy(src) THEN None
  ELSE LET p  == IF Exists(assets_dir) THEN Join(assets_dir, src) ELSE None
           p2 == Join(root_dir, src)
           p3 == Join(assets_dir, Name(src))
           p4 == Join(root_dir, Name(src))
       IN  IF Exists(p2) THEN p2
           ELSE IF p # None /\ Exists(p) THEN p
           ELSE IF Exists(assets_dir) /\ Exists(p3) THEN p3
           ELSE IF Exists(p4) THEN p4
           ELSE None

resolve_local(src) ==
  IF Falsy(src) THEN None
  ELSE LET p  == IF Exists(assets_dir) THEN Join(assets_dir, src) ELSE None
           p2 == Join(root_dir, src)
           p3 == Join(assets_dir, Name(src))
           p4 == Join(root_dir, Name(src))
       IN  IF p # None /\ Exists(p) THEN p
           ELSE IF Exists(p2) THEN p2
           ELSE IF Exists(assets_dir) /\ Exists(p3) THEN p3
           ELSE IF Exists(p4) THEN p4
           ELSE None

\* ---------------------------------------------------------------- the tree
Node(tag, ref, rel, style, raw, kids) ==
  [tag |-> tag, ref |-> ref, rel |-> rel, style |-> style, raw |-> raw,
   kids |-> kids]

El(tag, kids) == Node(tag, <<>>, "", <<>>, <<>>, kids)
Img(src) == Node("img", src, "", <<>>, <<>>, <<>>)
Link(rel, href) == Node("link", href, rel, <<>>, <<>>, <<>>)
Frame(src) == Node("frame", src, "", <<>>, <<>>, <<>>)
Text(raw) == Node("#text", <<>>, "", <<>>, raw, <<>>)

RECURSIVE FindAll(_, _)
FindAll(nodes, tags) ==
  IF nodes = <<>> THEN <<>>
  ELSE LET n == Head(nodes)
       IN  (IF n.tag \in tags THEN <<n>> ELSE <<>>)
             \o FindAll(n.kids, tags) \o FindAll(Tail(nodes), tags)

RECURSIVE Decompose(_, _)
Decompose(nodes, tags) ==
  IF nodes = <<>> THEN <<>>
  ELSE LET n == Head(nodes)
       IN  (IF n.tag \in tags THEN <<>>
            ELSE <<[n EXCEPT !.kids = Decompose(n.kids, tags)]>>)
             \o Decompose(Tail(nodes), tags)

RECURSIVE EmptyFirst(_, _)
EmptyFirst(nodes, tag) ==
  IF nodes = <<>> THEN <<>>
  ELSE LET n == Head(nodes)
       IN  IF n.tag = tag THEN <<[n EXCEPT !.kids = <<>>]>> \o Tail(nodes)
           ELSE IF FindAll(n.kids, {tag}) # <<>>
                THEN <<[n EXCEPT !.kids = EmptyFirst(n.kids, tag)]>> \o Tail(nodes)
                ELSE <<n>> \o EmptyFirst(Tail(nodes), tag)

Document(head, body) == <<El("html", <<El("head", head), El("body", body)>>)>>
FramesetDocument(head, frames) ==
  <<El("html", <<El("head", head), El("frameset", frames)>>)>>

\* The parse of a worksheet file: every worksheet file holds sheet_body,
\* after a text node that names the file.
SheetSoup(path) ==
  Document(<<>>, <<Text(<<[k |-> "sheet", p |-> path]>>)>> \o sheet_body)

\* ------------------------------------------------------------- the tokens
\* A token of markup or CSS text: a lexeme (k) and, for a reference or an
\* attribute, its value (p).
T(s) == [k |-> s, p |-> <<>>]
Tok(k, p) == [k |-> k, p |-> p]

\* ------------------------------------- inline_assets_and_clean, step by step
Stage(s) == IF stages # <<>> /\ stages[Len(stages)] = s THEN stages
            ELSE Append(stages, s)

\* lines 402-411: read, parse, default asset directory
ReadAndParse ==
  /\ program = "main.py"
  /\ pc = "start"
  /\ assets_dir' = StemFiles
  /\ stages' = Stage("normalize")
  /\ pc' = "frameset"
  /\ UNCHANGED <<win_vars, inputs, mac_vars, san_vars, upd_vars, rd_vars, content_soup, sheet_path, content, inline_styles,
                 css_bundle, bundled_css_text, wrapper, frag>>

HrefTags == {"link", "a", "x:worksheetsource"}
SheetNames == {"sheet001.htm", "sheet002.htm"}
\* HRef="([^"]+sheet\d+\.htm)": something must precede the sheet name
IsSheetHint(ref) == Len(ref) >= 2 /\ ref[Len(ref)] \in SheetNames

FrameCandidate ==
  LET fsets == FindAll(soup, {"frameset"})
  IN  IF fsets = <<>> THEN None
      ELSE LET frames == SelectSeq(FindAll(fsets[1].kids, {"frame"}),
                                   LAMBDA n : n.ref # <<>>)
               c1 == IF frames # <<>> THEN frames[1].ref ELSE None
               hints == SelectSeq(FindAll(soup, HrefTags),
                                  LAMBDA n : IsSheetHint(n.ref))
           IN  IF ~Falsy(c1) THEN c1
               ELSE IF hints # <<>> THEN hints[1].ref ELSE None

SheetPathFor_no_fallback(candidate) == Join(root_dir, candidate)

SheetPathFor(candidate) ==
  LET sp1 == Join(root_dir, candidate)
      sp2 == StemFiles \o Name(candidate)
  IN  IF ~Exists(sp1) /\ Exists(sp2) THEN sp2 ELSE sp1

\* lines 413-450: an Excel frameset opens the real sheet
Frameset ==
  /\ pc = "frameset"
  /\ LET candidate == FrameCandidate
         sp == IF Falsy(candidate) THEN None ELSE SheetPathFor(candidate)
     IN  IF sp # None /\ Exists(sp)
         THEN IF sp \in files
              THEN /\ assets_dir' = Parent(sp)
                   /\ sheet_path' = sp
                   /\ content_soup' = SheetSoup(sp)
                   /\ pc' = "extract"
              ELSE \* read_file_text of a directory raises
                   /\ assets_dir' = Parent(sp)
                   /\ sheet_path' = sp
                   /\ content_soup' = content_soup
                   /\ pc' = "raised"
         ELSE /\ content_soup' = soup
              /\ pc' = "extract"
              /\ UNCHANGED <<assets_dir, sheet_path>>
  /\ UNCHANGED <<win_vars, inputs, mac_vars, san_vars, upd_vars, rd_vars, content, inline_styles, css_bundle,
                 bundled_css_text, wrapper, frag, stages>>

\* lines 452-465: drop script/xml, collect the style blocks, take the body
ExtractBody ==
  /\ pc = "extract"
  /\ LET cs == Decompose(content_soup, {"script", "xml"})
         bodies == FindAll(cs, {"body"})
     IN  /\ inline_styles' = FindAll(cs, {"style"})
         /\ content' = IF bodies # <<>> THEN bodies[1].kids ELSE cs
         /\ content_soup' = IF bodies # <<>> THEN EmptyFirst(cs, "body")
                            ELSE <<>>
  /\ pc' = "imgs"
  /\ UNCHANGED <<win_vars, inputs, mac_vars, san_vars, upd_vars, rd_vars, assets_dir, sheet_path, css_bundle,
                 bundled_css_text, wrapper, frag, stages>>

RECURSIVE InlineImgSrc(_)
InlineImgSrc(nodes) ==
  [i \in 1..Len(nodes) |->
     LET n == nodes[i]
         m == [n EXCEPT !.kids = InlineImgSrc(n.kids)]
         local == resolve_local(n.ref)
     IN  IF n.tag = "img" /\ local # None /\ local \in files
         THEN [m EXCEPT !.ref = data_uri_for(local)]
         ELSE m]

\* lines 490-498: inline <img> sources
InlineImgs ==
  /\ pc = "imgs"
  /\ content' = InlineImgSrc(content)
  /\ stages' = Stage("inline")
  /\ pc' = "links"
  /\ UNCHANGED <<win_vars, inputs, mac_vars, san_vars, upd_vars, rd_vars, assets_dir, sheet_path, content_soup, inline_styles,
                 css_bundle, bundled_css_text, wrapper, frag>>

Lower(s) == CASE s = "Stylesheet" -> "stylesheet" [] OTHER -> s

IsStylesheetLink(n) == n.tag = "link" /\ Lower(n.rel) = "stylesheet"

\* The text of a stylesheet file: a comment, a rule that names the file, an
\* unquoted url() and a quoted one.
CssText(path) ==
  <<T("/*c*/"), Tok("rule", path), Tok("url(", <<"a.png">>),
    Tok("url(\"", <<"missing.png">>)>>

RECURSIVE ReadCss(_)
ReadCss(paths) ==
  IF paths = <<>> THEN <<>>
  ELSE (IF Head(paths) \in files
        THEN <<[file |-> Head(paths), text |-> CssText(Head(paths))]>>
        ELSE <<>>) \o ReadCss(Tail(paths))

LinkedCss(links) ==
  LET locals == [i \in 1..Len(links) |-> resolve_local(links[i].ref)]
      hits == SelectSeq(locals,
                LAMBDA l : l # None /\ Lower(Suffix(l[Len(l)])) = ".css")
  IN  ReadCss(hits)

RECURSIVE DropStylesheetLinks(_)
DropStylesheetLinks(nodes) ==
  IF nodes = <<>> THEN <<>>
  ELSE LET n == Head(nodes)
       IN  (IF IsStylesheetLink(n) THEN <<>>
            ELSE <<[n EXCEPT !.kids = DropStylesheetLinks(n.kids)]>>)
             \o DropStylesheetLinks(Tail(nodes))

\* lines 500-516: <link rel="stylesheet"> of content_soup into the bundle
InlineLinks ==
  /\ pc = "links"
  /\ css_bundle' = LinkedCss(SelectSeq(FindAll(content_soup, {"link"}),
                                       IsStylesheetLink))
  /\ content_soup' = DropStylesheetLinks(content_soup)
  /\ pc' = "glob"
  /\ UNCHANGED <<win_vars, inputs, mac_vars, san_vars, upd_vars, rd_vars, assets_dir, sheet_path, content, inline_styles,
                 bundled_css_text, wrapper, frag, stages>>

CssNameRank(name) == CASE name = "s.css" -> 1 [] name = "t.css" -> 2 [] OTHER -> 0

Remove(seq, i) == SubSeq(seq, 1, i - 1) \o SubSeq(seq, i + 1, Len(seq))

RECURSIVE sorted(_)
sorted(paths) ==
  IF paths = <<>> THEN <<>>
  ELSE LET m == CHOOSE i \in 1..Len(paths) :
                  \A j \in 1..Len(paths) :
                    CssNameRank(paths[i][Len(paths[i])])
                      <= CssNameRank(paths[j][Len(paths[j])])
       IN  <<paths[m]>> \o sorted(Remove(paths, m))

\* assets_dir.glob("*.css"): the entries of assets_dir named *.css
GlobCssSet ==
  {f \in files \cup dirs : Parent(f) = assets_dir /\ Suffix(f[Len(f)]) = ".css"}

Enumerations(S) ==
  {e \in [1..Cardinality(S) -> S] :
     \A i, j \in 1..Cardinality(S) : e[i] = e[j] => i = j}

\* lines 518-525: every *.css under assets_dir, in sorted order
GlobCss ==
  /\ pc = "glob"
  /\ IF Exists(assets_dir)
     THEN \E e \in Enumerations(GlobCssSet) :
            css_bundle' = css_bundle \o ReadCss(sorted(e))
     ELSE css_bundle' = css_bundle
  /\ pc' = "css"
  /\ UNCHANGED <<win_vars, inputs, mac_vars, san_vars, upd_vars, rd_vars, assets_dir, sheet_path, content_soup, content,
                 inline_styles, bundled_css_text, wrapper, frag, stages>>

IsUrlTok(t) == t.k \in {"url(", "url(\""}

\* repl of _rewrite_css_urls: the surrounding quotes are stripped
rewrite_css_url(t, base_dir) ==
  IF ~IsUrlTok(t) THEN t
  ELSE LET raw == t.p
           local == Join(base_dir, raw)
           by_name == Join(assets_dir, Name(raw))
       IN  IF Exists(local)
           THEN IF local \in files THEN Tok("url(", data_uri_for(local))
                ELSE Tok("url(", raw)
           ELSE IF Exists(assets_dir) /\ Exists(by_name)
                THEN IF by_name \in files
                     THEN Tok("url(", data_uri_for(by_name))
                     ELSE Tok("url(", raw)
                ELSE Tok("url(", raw)

_rewrite_css_urls(css_text, base_dir) ==
  [i \in 1..Len(css_text) |-> rewrite_css_url(css_text[i], base_dir)]

RECURSIVE BundleText(_)
BundleText(bundle) ==
  IF bundle = <<>> THEN <<>>
  ELSE <<T("nl")>>
         \o _rewrite_css_urls(Head(bundle).text, Parent(Head(bundle).file))
         \o BundleText(Tail(bundle))

\* lines 527-551: url(...) of the bundled CSS to data: URIs
RewriteCss ==
  /\ pc = "css"
  /\ bundled_css_text' = BundleText(css_bundle)
  /\ pc' = "spacerun"
  /\ UNCHANGED <<win_vars, inputs, mac_vars, san_vars, upd_vars, rd_vars, assets_dir, sheet_path, content_soup, content,
                 inline_styles, css_bundle, wrapper, frag, stages>>

\* ------------------------------------------------------ whitespace cleaning
Spaces == {"sp"}
Blanks == {"sp", "tab", "cr", "nl"}

NbspToSpace(toks) ==
  [i \in 1..Len(toks) |-> IF toks[i].k = "nbsp" THEN T("sp") ELSE toks[i]]

RECURSIVE DropRun(_, _)
DropRun(toks, ws) ==
  IF toks # <<>> /\ Head(toks).k \in ws THEN DropRun(Tail(toks), ws) ELSE toks

RECURSIVE CollapseRuns(_, _)
CollapseRuns(toks, ws) ==
  IF toks = <<>> THEN <<>>
  ELSE IF Head(toks).k \in ws
       THEN <<T("sp")>> \o CollapseRuns(DropRun(toks, ws), ws)
       ELSE <<Head(toks)>> \o CollapseRuns(Tail(toks), ws)

RECURSIVE get_text(_)
get_text(nodes) ==
  IF nodes = <<>> THEN <<>>
  ELSE LET n == Head(nodes)
       IN  (IF n.tag = "#text" THEN n.raw ELSE <<>>)
             \o get_text(n.kids) \o get_text(Tail(nodes))

\* get_text(strip=True) == "": nothing but white space
IsBlankText(toks) ==
  \A i \in 1..Len(toks) : toks[i].k \in Blanks \cup {"nbsp"}

IsSpacerun(n) ==
  n.tag = "span" /\ \E i \in 1..Len(n.style) : n.style[i] = "mso-spacerun:yes"

RECURSIVE ReplaceSpacerun(_)
ReplaceSpacerun(nodes) ==
  [i \in 1..Len(nodes) |->
     LET n == nodes[i]
         txt == IF get_text(n.kids) = <<>> THEN <<T("sp")>>
                ELSE get_text(n.kids)
     IN  IF IsSpacerun(n)
         THEN Text(CollapseRuns(NbspToSpace(txt), Spaces))
         ELSE [n EXCEPT !.kids = ReplaceSpacerun(n.kids)]]

\* lines 553-560: spans marked mso-spacerun:yes become their text
Spacerun ==
  /\ pc = "spacerun"
  /\ content' = ReplaceSpacerun(content)
  /\ stages' = Stage("clean")
  /\ pc' = "collapse"
  /\ UNCHANGED <<win_vars, inputs, mac_vars, san_vars, upd_vars, rd_vars, assets_dir, sheet_path, content_soup, inline_styles,
                 css_bundle, bundled_css_text, wrapper, frag>>

RECURSIVE CleanParagraphs(_, _, _)
CleanParagraphs(nodes, inside, parent) ==
  IF nodes = <<>> THEN <<>>
  ELSE LET n == Head(nodes)
           m == [n EXCEPT
                   !.kids = CleanParagraphs(n.kids,
                              inside \/ n.tag \in {"p", "li"}, n.tag),
                   !.raw = IF n.tag = "#text" /\ inside
                              /\ parent \notin {"code", "pre", "style"}
                           THEN CollapseRuns(NbspToSpace(n.raw), Blanks)
                           ELSE n.raw]
       IN  (IF inside /\ n.tag = "span" /\ IsBlankText(get_text(m.kids))
            THEN <<>> ELSE <<m>>)
             \o CleanParagraphs(Tail(nodes), inside, parent)

\* the spans that span.decompose() destroys, with all they contain
RECURSIVE DecomposedSpans(_, _)
DecomposedSpans(nodes, inside) ==
  IF nodes = <<>> THEN <<>>
  ELSE LET n == Head(nodes)
       IN  (IF inside /\ n.tag = "span" /\ IsBlankText(get_text(n.kids))
            THEN <<n>>
            ELSE DecomposedSpans(n.kids, inside \/ n.tag \in {"p", "li"}))
             \o DecomposedSpans(Tail(nodes), inside)

\* what is left of a tag after decompose(): no name, no attributes, no content
DecomposedTag == Node("None", <<>>, "", <<>>, <<>>, <<>>)

\* lines 562-572: collapse white space in p/li, drop their text-less spans;
\* a collected style block that sat in such a span is destroyed with it
Collapse ==
  /\ pc = "collapse"
  /\ content' = CleanParagraphs(content, FALSE, "div")
  /\ LET gone == FindAll(DecomposedSpans(content, FALSE), {"style"})
     IN  inline_styles' =
           [i \in 1..Len(inline_styles) |->
              IF \E j \in 1..Len(gone) : gone[j] = inline_styles[i]
              THEN DecomposedTag ELSE inline_styles[i]]
  /\ pc' = "wrap"
  /\ UNCHANGED <<win_vars, inputs, mac_vars, san_vars, upd_vars, rd_vars, assets_dir, sheet_path, content_soup,
                 css_bundle, bundled_css_text, wrapper, frag, stages>>

\* ------------------------------------------------------------ the wrapper
WrapperStyle ==
  <<"margin:0 !important", "padding:0", "width:min(100%, 900px)",
    "background:transparent", "overflow:visible">>

StyleBlock(css) == Node("style", <<>>, "", <<>>, css, <<>>)

HasText(toks) == ~IsBlankText(toks)

\* lines 574-599: bundled CSS, then the collected style blocks, then content
Assemble ==
  /\ pc = "wrap"
  /\ wrapper' =
       <<Node("div", <<>>, "", WrapperStyle, <<>>,
              (IF HasText(bundled_css_text)
               THEN <<StyleBlock(bundled_css_text)>> ELSE <<>>)
                \o inline_styles
                \o <<El("div", Decompose(content, {"style"}))>>)>>
  /\ stages' = Stage("assemble")
  /\ pc' = "cleanup"
  /\ UNCHANGED <<win_vars, inputs, mac_vars, san_vars, upd_vars, rd_vars, assets_dir, sheet_path, content_soup, content,
                 inline_styles, css_bundle, bundled_css_text, frag>>

\* ---------------------------------------------- serialisation, textual passes
VoidTags == {"img", "link", "frame", "meta", "br"}

Attrs(n) ==
  (IF n.ref # <<>>
   THEN <<Tok(IF n.tag \in HrefTags THEN "href=" ELSE "src=", n.ref)>>
   ELSE <<>>)
    \o (IF n.rel # "" THEN <<Tok("rel=", <<n.rel>>)>> ELSE <<>>)
    \o (IF n.style # <<>> THEN <<Tok("style=", n.style)>> ELSE <<>>)

\* text is entity-escaped; comments and style text are written as they are
Escape(toks) ==
  [i \in 1..Len(toks) |->
     CASE toks[i].k = "<" -> T("&lt;")
       [] toks[i].k = ">" -> T("&gt;")
       [] OTHER -> toks[i]]

RECURSIVE Ser(_)
Ser(nodes) ==
  IF nodes = <<>> THEN <<>>
  ELSE LET n == Head(nodes)
       IN  (CASE n.tag = "#text" -> Escape(n.raw)
              [] n.tag = "#comment" ->
                   <<T("<!--")>> \o n.raw \o <<T("--"), T(">")>>
              [] n.tag \in VoidTags ->
                   <<T("<"), T(n.tag)>> \o Attrs(n) \o <<T("/"), T(">")>>
              [] OTHER ->
                   <<T("<"), T(n.tag)>> \o Attrs(n) \o <<T(">")>>
                     \o n.raw \o Ser(n.kids)
                     \o <<T("<"), T("/"), T(n.tag), T(">")>>)
             \o Ser(Tail(nodes))

WrapperNames == {"html", "head", "body", "BODY"}
\* the words that begin with html, head or body
WrapperPrefixed == WrapperNames \cup {"header"}
HasGT(t) == t.k \in {">", "]>"}
WhiteSpace == Blanks \cup {"nbsp"}

RECURSIVE SkipWs(_, _)
SkipWs(toks, i) ==
  IF i <= Len(toks) /\ toks[i].k \in WhiteSpace THEN SkipWs(toks, i + 1) ELSE i

RECURSIVE FirstGT(_, _)
FirstGT(toks, i) ==
  IF i > Len(toks) THEN 0
  ELSE IF HasGT(toks[i]) THEN i ELSE FirstGT(toks, i + 1)

\* <!--\[if.*?endif\]--> at the head of toks: the last index of the match, or 0
RECURSIVE FirstEndif(_, _)
FirstEndif(toks, j) ==
  IF j + 2 > Len(toks) THEN 0
  ELSE IF toks[j].k = "endif]" /\ toks[j + 1].k = "--" /\ toks[j + 2].k = ">"
       THEN j + 2 ELSE FirstEndif(toks, j + 1)

CondEnd(toks) ==
  IF Len(toks) >= 2 /\ toks[1].k = "<!--" /\ toks[2].k = "[if"
  THEN FirstEndif(toks, 3) ELSE 0

\* <\s*(html|head|body)[^>]*> at the head of toks
OpenEnd(toks) ==
  IF toks[1].k # "<" THEN 0
  ELSE LET j == SkipWs(toks, 2)
       IN  IF j <= Len(toks) /\ toks[j].k \in WrapperPrefixed
           THEN FirstGT(toks, j + 1) ELSE 0

\* </\s*(html|head|body)\s*> at the head of toks
CloseEnd(toks) ==
  IF Len(toks) < 2 \/ toks[1].k # "<" \/ toks[2].k # "/" THEN 0
  ELSE LET j == SkipWs(toks, 3)
           k == SkipWs(toks, j + 1)
       IN  IF j <= Len(toks) /\ toks[j].k \in WrapperNames
              /\ k <= Len(toks) /\ toks[k].k = ">"
           THEN k ELSE 0

RECURSIVE SubCond(_)
SubCond(toks) ==
  IF toks = <<>> THEN <<>>
  ELSE IF CondEnd(toks) > 0
       THEN SubCond(SubSeq(toks, CondEnd(toks) + 1, Len(toks)))
       ELSE <<Head(toks)>> \o SubCond(Tail(toks))

RECURSIVE SubOpen(_)
SubOpen(toks) ==
  IF toks = <<>> THEN <<>>
  ELSE IF OpenEnd(toks) > 0
       THEN SubOpen(SubSeq(toks, OpenEnd(toks) + 1, Len(toks)))
       ELSE <<Head(toks)>> \o SubOpen(Tail(toks))

RECURSIVE SubClose(_)
SubClose(toks) ==
  IF toks = <<>> THEN <<>>
  ELSE IF CloseEnd(toks) > 0
       THEN SubClose(SubSeq(toks, CloseEnd(toks) + 1, Len(toks)))
       ELSE <<Head(toks)>> \o SubClose(Tail(toks))

\* lines 601-607: str(wrapper), then the three re.sub passes
Cleanup ==
  /\ pc = "cleanup"
  /\ frag' = SubClose(SubOpen(SubCond(Ser(wrapper))))
  /\ pc' = "done"
  /\ UNCHANGED <<win_vars, inputs, mac_vars, san_vars, upd_vars, rd_vars, assets_dir, sheet_path, content_soup, content,
                 inline_styles, css_bundle, bundled_css_text, wrapper, stages>>

\* ==================================================== main.py, update flow
\* ALLOWED_EXTS, line 59, and the suffixes a selected file is drawn from
ALLOWED_EXTS == {".doc", ".docx", ".xls", ".xlsx", ".htm", ".html"}
Suffixes == ALLOWED_EXTS \cup {".pdf", ""}

\* Path.cwd() / "_tmp_export", line 1574
workdir == <<"cwd", "_tmp_export">>

\* what the collaborators raise: the converters (lines 262-328) and the
\* requests calls of perform_upload
ConverterErrors == {<<"pywin32 / win32com is not available.">>, <<"com_error">>}
PublisherErrors == {<<"HTTPError">>}

Box(kind, title, msg) == [kind |-> kind, title |-> title, msg |-> msg]

\* the window as constructed: nothing called, nothing shown
Window(confirmed) ==
  [calls |-> <<>>, shown |-> <<>>, confirm |-> confirmed, undo |-> FALSE,
   backup |-> FALSE, progress |-> 0, made |-> {}]

\* the except clause of on_update_clicked, lines 1614-1618
UploadError(u, e) ==
  [u EXCEPT !.shown = Append(@, Box("critical", "Upload Error",
                                    <<"Upload failed:">> \o e)),
            !.progress = 0]

\* on_update_clicked, lines 1552-1597: the guards, the work directory, the
\* routing on the suffix, up to the call of inline_assets_and_clean
on_update_clicked ==
  /\ program = "main.py"
  /\ pc = "clicked"
  /\ \E given \in {"none", "missing", "present"}, ext \in Suffixes,
        conv \in {None} \cup ConverterErrors :
       IF ~ui.confirm
       THEN /\ ui' = [ui EXCEPT !.shown =
                        Append(@, Box("warning", "Confirm Update", <<>>))]
            /\ pc' = "returned"
       ELSE IF given # "present"
       THEN /\ ui' = [ui EXCEPT !.shown =
                        Append(@, Box("warning", "No File", <<given>>))]
            /\ pc' = "returned"
       ELSE LET u1 == [ui EXCEPT !.progress = 10, !.made = @ \cup {workdir}]
                converter ==
                  CASE ext \in {".doc", ".docx"} -> "convert_word_to_html"
                    [] ext \in {".xls", ".xlsx"} -> "convert_excel_to_html"
                    [] OTHER -> ""
                u2 == IF converter = "" THEN u1
                      ELSE [u1 EXCEPT !.calls = Append(@, converter)]
            IN  IF ext \notin {".htm", ".html", ".doc", ".docx", ".xls", ".xlsx"}
                THEN /\ ui' = UploadError(u1, <<"Unsupported file type: ", ext,
                                               ". Expected HTML, Word, or Excel.">>)
                     /\ pc' = "returned"
                ELSE IF converter # "" /\ conv # None
                THEN /\ ui' = UploadError(u2, conv)
                     /\ pc' = "returned"
                ELSE /\ ui' = [u2 EXCEPT !.progress = 55,
                                         !.calls = Append(@, "inline_assets_and_clean")]
                     /\ pc' = "start"
  /\ UNCHANGED <<win_vars, inputs, mac_vars, san_vars, rd_vars, assets_dir, content_soup,
                 sheet_path, content, inline_styles, css_bundle,
                 bundled_css_text, wrapper, frag, stages>>

\* an exception of inline_assets_and_clean lands in the except clause
on_update_except ==
  /\ program = "main.py"
  /\ pc = "raised"
  /\ ui' = UploadError(ui, <<"IsADirectoryError">>)
  /\ pc' = "returned"
  /\ UNCHANGED <<win_vars, inputs, mac_vars, san_vars, rd_vars, assets_dir, content_soup,
                 sheet_path, content, inline_styles, css_bundle,
                 bundled_css_text, wrapper, frag, stages>>

\* fragment.strip() is empty
IsBlankFragment(fragment) ==
  \A i \in 1..Len(fragment) : fragment[i].k \in WhiteSpace

\* perform_upload, lines 1435-1514, for the page selection, the outcome of
\* the backup GET and the outcomes of POST and PUT
perform_upload(u, page, backup, post, put) ==
  IF page # "selected"
  THEN [u EXCEPT !.shown = Append(@, Box("warning", "Upload", <<page>>))]
  ELSE LET u1 == [u EXCEPT !.progress = 60,
                           !.calls = Append(@, "requests.get")]
           u2 == IF backup
                 THEN [u1 EXCEPT !.backup = TRUE, !.undo = TRUE]
                 ELSE [u1 EXCEPT !.undo = u1.backup]
           u3 == [u2 EXCEPT !.progress = 83,
                            !.calls = Append(@, "requests.post")]
           u4 == IF post = <<"405">>
                 THEN [u3 EXCEPT !.calls = Append(@, "requests.put")]
                 ELSE u3
           e == IF post = <<"405">> THEN put ELSE post
       IN  IF e = None
           THEN [u4 EXCEPT !.progress = 100, !.confirm = FALSE,
                           !.undo = @ \/ u4.backup]
           ELSE [u4 EXCEPT !.shown = Append(@, Box("critical", "Upload failed", e)),
                           !.progress = 0]

\* on_update_clicked, lines 1607-1612: the checkbox is cleared once
\* perform_upload has returned
AfterUpload_keep(u) == u
AfterUpload(u) == [u EXCEPT !.confirm = FALSE]

\* on_update_clicked, lines 1598-1612: the check of the fragment, the upload,
\* the checkbox cleared once perform_upload has returned
CheckAndUpload ==
  /\ program = "main.py"
  /\ pc = "done"
  /\ \E page \in {"no page", "no page id", "selected"}, backup \in BOOLEAN,
        post \in {None, <<"405">>} \cup PublisherErrors,
        put \in {None} \cup PublisherErrors :
       IF IsBlankFragment(frag)
       THEN ui' = UploadError(ui, <<"Cleaning produced an empty fragment.">>)
       ELSE ui' = AfterUpload(
                    perform_upload([ui EXCEPT !.progress = 70,
                                              !.calls = Append(@, "perform_upload")],
                                   page, backup, post, put))
  /\ pc' = "returned"
  /\ UNCHANGED <<win_vars, inputs, mac_vars, san_vars, rd_vars, assets_dir, content_soup,
                 sheet_path, content, inline_styles, css_bundle,
                 bundled_css_text, wrapper, frag, stages>>

\* ================================================ main.py, upload and undo
\* The pages of the site by id; a page content is a number: Original(p) at
\* the start, Fragment(n) once the n-th click on Update has overwritten it,
\* Rendered(c) for the rendered form of the raw content c.
Pages == {1, 2}
Original(p) == 10 * p
Fragment(n) == 100 * n
Rendered(c) == c + 1

\* temp_backup.html: its text and, for the properties, the page the text was
\* fetched from (0: from no page of this session); NoBackup: no such file
NoBackup == [text |-> 0, page |-> 0]
StaleBackup == [text |-> 5, page |-> 0]
\* a write to a page: the page and the content written; NoWrite: none
NoWrite == [page |-> 0, text |-> 0]

\* the user ticks or clears "I have selected the correct page."
ToggleConfirm ==
  /\ program = "upload and undo"
  /\ ui' = [ui EXCEPT !.confirm = ~@]
  /\ UNCHANGED <<inputs, main_vars, mac_vars, san_vars, rd_vars, undo_vars, cred_vars,
                 login_vars>>

\* on_update_clicked with perform_upload, lines 1544-1618 and 1435-1514, on
\* the pages of the site: what happens before perform_upload is one of its
\* three ends (no file selected, an exception, a fragment)
Update ==
  /\ program = "upload and undo"
  /\ clicks < MaxClicks
  /\ clicks' = clicks + 1
  /\ \E before \in {"no file", "raises", "fragment"},
        page \in {"no page", "no page id", "selected"}, sel \in Pages,
        backup \in {"raw", "rendered", "fails"},
        post \in {None, <<"405">>} \cup PublisherErrors,
        put \in {None} \cup PublisherErrors :
       LET reached == ui.confirm /\ before = "fragment"
           uploads == reached /\ page = "selected"
           saved == uploads /\ backup # "fails"
           written == uploads /\ (IF post = <<"405">> THEN put ELSE post) = None
       IN  /\ ui' =
                IF ~ui.confirm
                THEN [ui EXCEPT !.shown =
                        Append(@, Box("warning", "Confirm Update", <<>>))]
                ELSE IF before = "no file"
                THEN [ui EXCEPT !.shown =
                        Append(@, Box("warning", "No File", <<"none">>))]
                ELSE IF before = "raises"
                THEN UploadError([ui EXCEPT !.made = @ \cup {workdir}],
                                 <<"IsADirectoryError">>)
                ELSE AfterUpload(
                       perform_upload(
                         [ui EXCEPT !.made = @ \cup {workdir},
                                    !.progress = 70,
                                    !.calls = Append(@, "perform_upload")],
                         page, backup # "fails", post, put))
           /\ temp_backup' =
                IF saved
                THEN [text |-> IF backup = "raw" THEN site[sel]
                               ELSE Rendered(site[sel]),
                      page |-> sel]
                ELSE temp_backup
           /\ last_page_id' = IF saved THEN sel ELSE last_page_id
           /\ site' = IF written
                      THEN [site EXCEPT ![sel] = Fragment(clicks + 1)]
                      ELSE site
           /\ last_upload' = IF written
                             THEN [page |-> sel, text |-> site[sel]]
                             ELSE last_upload
           /\ undone' = IF written THEN NoWrite ELSE undone
  /\ UNCHANGED <<inputs, main_vars, mac_vars, san_vars, rd_vars, cred_vars, login_vars>>

\* on_undo_clicked, lines 1621-1654; the button is clicked while enabled
on_undo_clicked ==
  /\ program = "upload and undo"
  /\ ui.undo
  /\ clicks < MaxClicks
  /\ clicks' = clicks + 1
  /\ \E answer \in {"Yes", "No"},
        post \in {None, <<"405">>} \cup PublisherErrors,
        put \in {None} \cup PublisherErrors :
       LET warn(t) == [ui EXCEPT !.shown =
                         Append(@, Box("warning", "Undo / Regret", <<t>>))]
           e == IF post = <<"405">> THEN put ELSE post
           u1 == [ui EXCEPT !.calls = Append(@, "requests.post")]
           u2 == IF post = <<"405">>
                 THEN [u1 EXCEPT !.calls = Append(@, "requests.put")]
                 ELSE u1
       IN  IF temp_backup = NoBackup
           THEN /\ ui' = warn("No backup found to restore.")
                /\ UNCHANGED <<site, undone>>
           ELSE IF last_page_id = 0
           THEN /\ ui' = warn("No recorded page to restore.")
                /\ UNCHANGED <<site, undone>>
           ELSE IF answer # "Yes"
           THEN UNCHANGED <<ui, site, undone>>
           ELSE IF e = None
           THEN /\ site' = [site EXCEPT ![last_page_id] = temp_backup.text]
                /\ undone' = [page |-> last_page_id, text |-> temp_backup.text]
                /\ ui' = [u2 EXCEPT !.undo = FALSE,
                                    !.shown = Append(@, Box("information",
                                                "Undo / Regret", <<>>))]
           ELSE /\ ui' = [u2 EXCEPT !.shown =
                            Append(@, Box("critical", "Undo / Regret", e))]
                /\ UNCHANGED <<site, undone>>
  /\ UNCHANGED <<inputs, main_vars, mac_vars, san_vars, rd_vars, cred_vars, login_vars,
                 temp_backup, last_page_id, last_upload>>

\* ===================================================== main_mac_ready.py
\* _detect_companion_dirs, lines 216-232, for html_path = /r/doc.htm
CompanionNames ==
  <<"doc_files", "doc.files", "doc-files", "doc.html_files", "doc-Dateien",
    "doc.fld", "doc_Dateien">>

_detect_companion_dirs ==
  SelectSeq([i \in 1..Len(CompanionNames) |-> root_dir \o <<CompanionNames[i]>>],
            LAMBDA c : c \in dirs)

\* ^(data:|https?:|mailto:|#)
IsSchemeQualified(src) ==
  src # <<>> /\ src[1] \in {"http:", "https:", "data:", "mailto:", "#top"}

\* lstrip("./") of a reference: leading ".", ".." and "/" components go
RECURSIVE lstrip(_)
lstrip(src) ==
  IF src # <<>> /\ src[1] \in {"/", ".", ".."} THEN lstrip(Tail(src)) ELSE src

RECURSIVE FirstCandidate(_)
FirstCandidate(paths) ==
  IF paths = <<>> THEN None
  ELSE IF Exists(Head(paths)) THEN Head(paths)
  ELSE FirstCandidate(Tail(paths))

\* the names of the directories below the companion directories
SubDirNames ==
  {x[Len(x)] : x \in {y \in dirs : \E i \in 1..Len(_detect_companion_dirs) :
                                     Parent(y) = _detect_companion_dirs[i]}}

\* list(d.rglob(name)): d/name, then the hits of the subdirectories of d in
\* the order in which the directory is enumerated
rglob(d, name, order) ==
  (IF Exists(d \o name) THEN <<d \o name>> ELSE <<>>)
    \o SelectSeq([i \in 1..Len(order) |-> d \o <<order[i]>> \o name], Exists)

RECURSIVE AllHits(_, _, _)
AllHits(ds, name, order) ==
  IF ds = <<>> THEN <<>>
  ELSE rglob(Head(ds), name, order) \o AllHits(Tail(ds), name, order)

\* lines 265-285
_resolve_local(src, order) ==
  IF Falsy(src) \/ IsSchemeQualified(src) THEN None
  ELSE LET src_clean == lstrip(src)
           companion_dirs == _detect_companion_dirs
           direct == FirstCandidate(
                       [i \in 1..Len(companion_dirs) |-> companion_dirs[i] \o src_clean]
                         \o <<root_dir \o src_clean>>)
           hit == AllHits(companion_dirs, Name(src_clean), order)
       IN  IF direct # None THEN direct
           ELSE IF hit # <<>> THEN hit[1]
           ELSE None

\* lines 235-262: "" when the file cannot be read
_read_binary_as_data_uri(file_path) ==
  IF file_path \in files
  THEN <<"data:", Mime(file_path[Len(file_path)]), ";base64,">> \o file_path
  ELSE <<>>

\* re.sub(r"/\*.*?\*/", "", css_text)
StripCssComments(toks) == SelectSeq(toks, LAMBDA t : t.k # "/*c*/")

\* lines 296-308: a resolved stylesheet link becomes a style element, an
\* unresolved one is removed
RECURSIVE MacInlineLinks(_, _)
MacInlineLinks(nodes, order) ==
  IF nodes = <<>> THEN <<>>
  ELSE LET n == Head(nodes)
           local == _resolve_local(n.ref, order)
       IN  (IF IsStylesheetLink(n) /\ ~Falsy(n.ref)
            THEN IF local # None
                 THEN <<Node("style", <<>>, "", <<>>,
                             StripCssComments(CssText(local)), <<>>)>>
                 ELSE <<>>
            ELSE <<[n EXCEPT !.kids = MacInlineLinks(n.kids, order)]>>)
             \o MacInlineLinks(Tail(nodes), order)

\* _read_text_guess_encoding of a directory raises out of the function
MacRaises(order) ==
  \E i \in 1..Len(FindAll(soup, {"link"})) :
    LET n == FindAll(soup, {"link"})[i]
    IN  /\ IsStylesheetLink(n) /\ ~Falsy(n.ref)
        /\ _resolve_local(n.ref, order) \in dirs

\* lines 310-326: img and v:imagedata sources
RECURSIVE MacInlineImgs(_, _)
MacInlineImgs(nodes, order) ==
  IF nodes = <<>> THEN <<>>
  ELSE LET n == Head(nodes)
           local == _resolve_local(n.ref, order)
           data_uri == _read_binary_as_data_uri(local)
           m == [n EXCEPT !.kids = MacInlineImgs(n.kids, order)]
       IN  (IF n.tag \in {"img", "v:imagedata"} /\ local # None /\ data_uri # <<>>
            THEN <<[m EXCEPT !.ref = data_uri]>>
            ELSE <<m>>)
             \o MacInlineImgs(Tail(nodes), order)

ContainsMso(decl) == decl \in {"mso-margin-top-alt:auto", "mso-spacerun:yes"}

\* lines 332-336 on the serialised document: conditional comments (the
\* comment nodes are gone by then, style text is what is left to match) and
\* whole style attributes that contain mso-
RECURSIVE MsoCruft(_)
MsoCruft(nodes) ==
  IF nodes = <<>> THEN <<>>
  ELSE LET n == Head(nodes)
       IN  <<[n EXCEPT
                !.style = IF \E i \in 1..Len(n.style) : ContainsMso(n.style[i])
                          THEN <<>> ELSE @,
                !.raw = IF n.tag = "style" THEN SubCond(@) ELSE @,
                !.kids = MsoCruft(@)]>>
             \o MsoCruft(Tail(nodes))

\* lines 341-343: spans without text and without attributes
RECURSIVE DropEmptySpans(_)
DropEmptySpans(nodes) ==
  IF nodes = <<>> THEN <<>>
  ELSE LET n == Head(nodes)
       IN  (IF /\ n.tag = "span"
               /\ IsBlankText(get_text(n.kids))
               /\ n.style = <<>> /\ n.ref = <<>> /\ n.rel = ""
            THEN <<>>
            ELSE <<[n EXCEPT !.kids = DropEmptySpans(n.kids)]>>)
             \o DropEmptySpans(Tail(nodes))

\* <meta charset="utf-8">; the documents drawn carry no other meta element
MetaCharset == Node("meta", <<>>, "", <<>>, <<>>, <<>>)

RECURSIVE MetaIntoHead(_)
MetaIntoHead(nodes) ==
  IF nodes = <<>> THEN <<>>
  ELSE LET n == Head(nodes)
       IN  IF n.tag = "head"
           THEN <<IF FindAll(n.kids, {"meta"}) = <<>>
                  THEN [n EXCEPT !.kids = <<MetaCharset>> \o @] ELSE n>>
                  \o Tail(nodes)
           ELSE IF FindAll(n.kids, {"head"}) # <<>>
           THEN <<[n EXCEPT !.kids = MetaIntoHead(@)]>> \o Tail(nodes)
           ELSE <<n>> \o MetaIntoHead(Tail(nodes))

RECURSIVE HeadIntoHtml(_)
HeadIntoHtml(nodes) ==
  IF nodes = <<>> THEN <<>>
  ELSE LET n == Head(nodes)
       IN  IF n.tag = "html"
           THEN <<[n EXCEPT !.kids = <<El("head", <<MetaCharset>>)>> \o @]>>
                  \o Tail(nodes)
           ELSE IF FindAll(n.kids, {"html"}) # <<>>
           THEN <<[n EXCEPT !.kids = HeadIntoHtml(@)]>> \o Tail(nodes)
           ELSE <<n>> \o HeadIntoHtml(Tail(nodes))

\* lines 345-355: a head with a charset meta is made sure of
EnsureHead(nodes) ==
  IF FindAll(nodes, {"head"}) # <<>> THEN MetaIntoHead(nodes)
  ELSE IF FindAll(nodes, {"html"}) # <<>> THEN HeadIntoHtml(nodes)
  ELSE <<El("head", <<MetaCharset>>)>> \o nodes

\* lines 288-357, with the directories enumerated in the given order
_inline_assets_and_clean(order) ==
  IF MacRaises(order) THEN <<T("IsADirectoryError")>>
  ELSE LET linked == MacInlineLinks(soup, order)
           imaged == MacInlineImgs(linked, order)
           bare == Decompose(imaged, {"#comment"})
           soup2 == DropEmptySpans(Decompose(MsoCruft(bare), {"script"}))
       IN  Ser(EnsureHead(soup2))

\* one invocation on the document; the output of the one before is kept
MacInvoke ==
  /\ program = "main_mac_ready.py"
  /\ mac_runs < MaxRuns
  /\ \E order \in Enumerations(SubDirNames) :
       mac_out' = _inline_assets_and_clean(order)
  /\ mac_prev' = mac_out
  /\ mac_runs' = mac_runs + 1
  /\ UNCHANGED <<win_vars, inputs, main_vars, san_vars, upd_vars, rd_vars>>

\* process_file_for_upload, lines 409-425: the routing on the suffix; an
\* exception that leaves the function is recorded as a box of kind "raise"
process_file_for_upload ==
  /\ program = "main_mac_ready.py"
  /\ ui.calls = <<>> /\ ui.shown = <<>>
  /\ \E ext \in Suffixes :
       ui' = CASE ext \in {".html", ".htm"} ->
                    [ui EXCEPT !.calls = <<"handle_html_input_with_warning">>]
               [] ext = ".docx" ->
                    [ui EXCEPT !.calls = <<"convert_word_to_html">>]
               [] ext = ".xlsx" ->
                    [ui EXCEPT !.calls = <<"convert_excel_to_html">>]
               [] OTHER ->
                    [ui EXCEPT !.shown =
                       <<Box("raise", "ValueError",
                             <<"Unsupported file type: ", ext>>)>>]
  /\ UNCHANGED <<win_vars, inputs, main_vars, mac_vars, san_vars, rd_vars>>


\* ================================================ main.py, style functions
\* A style text is the sequence of its characters; a word that no pattern
\* looks into ("font-size", "solid", "#000000") stands as one element.
Digits == {"0", "1", "2", "3", "4", "5", "6", "7", "8", "9"}
DigitValue(c) ==
  CASE c = "0" -> 0 [] c = "1" -> 1 [] c = "2" -> 2 [] c = "3" -> 3
    [] c = "4" -> 4 [] c = "5" -> 5 [] c = "6" -> 6 [] c = "7" -> 7
    [] c = "8" -> 8 [] c = "9" -> 9
DigitChar(n) ==
  CASE n = 0 -> "0" [] n = 1 -> "1" [] n = 2 -> "2" [] n = 3 -> "3"
    [] n = 4 -> "4" [] n = 5 -> "5" [] n = 6 -> "6" [] n = 7 -> "7"
    [] n = 8 -> "8" [] n = 9 -> "9"

\* \s of the patterns
CssSpace == {" "}

ValueError == <<"ValueError">>

RECURSIVE Pow10(_)
Pow10(n) == IF n = 0 THEN 1 ELSE 10 * Pow10(n - 1)

\* the end of the run of elements of `set` that begins at i (i if none)
RECURSIVE RunEnd(_, _, _)
RunEnd(text, i, set) ==
  IF i <= Len(text) /\ text[i] \in set THEN RunEnd(text, i + 1, set) ELSE i

\* ([\d.]+)\s*pt matched with its group beginning at i: the index after the
\* match, 0 when there is none
PtMatchEnd(text, i) ==
  LET j == RunEnd(text, i, Digits \cup {"."})
      k == RunEnd(text, j, CssSpace)
  IN  IF j > i /\ k + 1 <= Len(text) /\ text[k] = "p" /\ text[k + 1] = "t"
      THEN k + 2 ELSE 0

\* float(match.group(1)): the digits as an integer and the number of digits
\* after the point; not a number with two points or without a digit
IsFloat(num) ==
  /\ Cardinality({i \in 1..Len(num) : num[i] = "."}) <= 1
  /\ \E i \in 1..Len(num) : num[i] \in Digits

RECURSIVE IntOf(_)
IntOf(digits) ==
  IF digits = <<>> THEN 0
  ELSE 10 * IntOf(SubSeq(digits, 1, Len(digits) - 1))
         + DigitValue(digits[Len(digits)])

Scale(num) ==
  IF \E i \in 1..Len(num) : num[i] = "."
  THEN Len(num) - (CHOOSE i \in 1..Len(num) : num[i] = ".")
  ELSE 0

Unscaled(num) == IntOf(SelectSeq(num, LAMBDA c : c # "."))

\* round(val * 1.3333, 2) in hundredths; the product of the drawn values is
\* never half-way between two hundredths
RoundedPx(num) ==
  LET d == Pow10(Scale(num) + 2)
  IN  (2 * Unscaled(num) * 13333 + d) \div (2 * d)

RECURSIVE IntText(_)
IntText(n) ==
  IF n < 10 THEN <<DigitChar(n)>>
  ELSE IntText(n \div 10) \o <<DigitChar(n % 10)>>

\* f"{px}" of a float of whole hundredths: 16.0, 0.67, 13.3
FloatText(q) ==
  IntText(q \div 100) \o <<".">>
    \o (IF q % 100 = 0 THEN <<"0">>
        ELSE IF q % 10 = 0 THEN <<DigitChar((q % 100) \div 10)>>
        ELSE <<DigitChar((q % 100) \div 10), DigitChar(q % 10)>>)

\* re.sub over the text from i on; ValueError when a group is not a float
RECURSIVE PtToPxFrom(_, _)
PtToPxFrom(text, i) ==
  IF i > Len(text) THEN <<>>
  ELSE LET e == PtMatchEnd(text, i)
           num == SubSeq(text, i, RunEnd(text, i, Digits \cup {"."}) - 1)
       IN  IF e = 0 THEN <<text[i]>> \o PtToPxFrom(text, i + 1)
           ELSE IF ~IsFloat(num) THEN ValueError
           ELSE LET rest == PtToPxFrom(text, e)
                IN  IF rest = ValueError THEN ValueError
                    ELSE FloatText(RoundedPx(num)) \o <<"p", "x">> \o rest

\* lines 65-75
_pt_to_px(css_text) ==
  LET out == PtToPxFrom(css_text, 1)
  IN  IF \E i \in 1..Len(out) : out[i] = "ValueError" THEN ValueError ELSE out

\* the first index from i on that holds c (0 if none)
RECURSIVE IndexFrom(_, _, _)
IndexFrom(text, i, c) ==
  IF i > Len(text) THEN 0
  ELSE IF text[i] = c THEN i ELSE IndexFrom(text, i + 1, c)

\* \w: what is not white space, punctuation or a word that ends in a hyphen
NonWord == {" ", ";", ":", ".", ",", "'", "mso-", "mso-bidi-"}
WordBoundaryBefore(text, i) == i = 1 \/ text[i - 1] \in NonWord

StartsWith(text, i, word) ==
  /\ i + Len(word) - 1 <= Len(text)
  /\ SubSeq(text, i, i + Len(word) - 1) = word

\* \bborder([^:]*):\s*0\.5pt\s+solid\s+([^;]+); matched at i: the two groups
\* and the index after the match; end = 0 when there is no match at i
HairlineMatch(text, i) ==
  LET colon == IndexFrom(text, i + 1, ":")
      v == RunEnd(text, colon + 1, CssSpace)
      s1 == v + 5
      s2 == RunEnd(text, s1, CssSpace)
      c1 == s2 + 1
      c2 == RunEnd(text, c1, CssSpace)
      semi == IndexFrom(text, c2, ";")
      ok == /\ text[i] = "border" /\ WordBoundaryBefore(text, i)
            /\ colon # 0
            /\ StartsWith(text, v, <<"0", ".", "5", "p", "t">>)
            /\ s2 > s1
            /\ s2 <= Len(text) /\ text[s2] = "solid"
            /\ c2 > c1
            /\ semi > c2
  IN  IF ok THEN [end |-> semi + 1,
                  side |-> SubSeq(text, i + 1, colon - 1),
                  colour |-> SubSeq(text, c2, semi - 1)]
      ELSE [end |-> 0, side |-> <<>>, colour |-> <<>>]

RECURSIVE ClampFrom(_, _)
ClampFrom(text, i) ==
  IF i > Len(text) THEN <<>>
  ELSE LET m == HairlineMatch(text, i)
       IN  IF m.end = 0 THEN <<text[i]>> \o ClampFrom(text, i + 1)
           ELSE <<"border">> \o m.side
                  \o <<":", " ", "1", "p", "x", " ", "solid", " ">>
                  \o m.colour \o <<";">> \o ClampFrom(text, m.end)

\* lines 223-233, for one element
clamp_hairline_borders(style) == ClampFrom(style, 1)

\* lines 236-241, in the order of the dictionary
FONT_MAP ==
  <<[k |-> "calibri",
     repl |-> <<"Calibri", ",", " ", "'", "Segoe UI", "'", ",", " ", "Arial",
                ",", " ", "Helvetica", ",", " ", "sans-serif">>],
    [k |-> "cambria",
     repl |-> <<"Cambria", ",", " ", "'", "Times New Roman", "'", ",", " ",
                "Times", ",", " ", "serif">>],
    [k |-> "times new roman",
     repl |-> <<"'", "Times New Roman", "'", ",", " ", "Times", ",", " ",
                "serif">>],
    [k |-> "arial",
     repl |-> <<"Arial", ",", " ", "Helvetica", ",", " ", "sans-serif">>]>>

\* str.lower of a font name
LowerName(c) ==
  CASE c \in {"Calibri", "CALIBRI"} -> "calibri"
    [] c = "Cambria" -> "cambria"
    [] c = "Times New Roman" -> "times new roman"
    [] c = "Arial" -> "arial"
    [] OTHER -> c

\* font-family\s*:\s*([^;]+); matched at i: the index of the first element
\* of the value and of the closing semicolon; semi = 0 when there is no match
FontFamilyMatch(text, i) ==
  LET colon == RunEnd(text, i + 1, CssSpace)
      semi == IF colon <= Len(text) THEN IndexFrom(text, colon + 1, ";") ELSE 0
  IN  IF /\ text[i] = "font-family"
         /\ colon <= Len(text) /\ text[colon] = ":"
         /\ semi > colon + 1
      THEN [val |-> colon + 1, semi |-> semi]
      ELSE [val |-> 0, semi |-> 0]

\* re.search: the first index with a match (0 if none)
RECURSIVE FontFamilySearch(_, _)
FontFamilySearch(text, i) ==
  IF i > Len(text) THEN 0
  ELSE IF FontFamilyMatch(text, i).semi # 0 THEN i
  ELSE FontFamilySearch(text, i + 1)

\* re.sub: every match becomes font-family: <repl>;
RECURSIVE FontFamilySub(_, _, _)
FontFamilySub(text, i, repl) ==
  IF i > Len(text) THEN <<>>
  ELSE LET m == FontFamilyMatch(text, i)
       IN  IF m.semi = 0 THEN <<text[i]>> \o FontFamilySub(text, i + 1, repl)
           ELSE <<"font-family", ":", " ">> \o repl \o <<";">>
                  \o FontFamilySub(text, m.semi + 1, repl)

\* `k in fam_norm` for the keys of FONT_MAP in order: the first that is in
\* the declared family (0 if none)
FirstKnownFont(fam) ==
  LET known == {n \in 1..Len(FONT_MAP) :
                  \E j \in 1..Len(fam) : LowerName(fam[j]) = FONT_MAP[n].k}
  IN  IF known = {} THEN 0
      ELSE CHOOSE n \in known : \A o \in known : n <= o

\* lines 244-258, for one element
map_font_families(style) ==
  LET at == FontFamilySearch(style, 1)
      m == FontFamilyMatch(style, at)
      n == FirstKnownFont(SubSeq(style, m.val, m.semi - 1))
  IN  IF at = 0 \/ n = 0 THEN style
      ELSE FontFamilySub(style, 1, FONT_MAP[n].repl)

\* "line-height" in st.lower()
HasLineHeightText(style) ==
  \E i \in 1..Len(style) :
    style[i] \in {"line-height", "LINE-HEIGHT", "mso-line-height-rule"}

RECURSIVE LStrip(_, _)
LStrip(text, set) ==
  IF text # <<>> /\ Head(text) \in set THEN LStrip(Tail(text), set) ELSE text

RECURSIVE RStrip(_, _)
RStrip(text, set) ==
  IF text # <<>> /\ text[Len(text)] \in set
  THEN RStrip(SubSeq(text, 1, Len(text) - 1), set) ELSE text

Strip(text, set) == LStrip(RStrip(text, set), set)

LineHeightTags == {"p", "li", "div", "span", "h1", "h2", "h3", "h4", "h5", "h6"}

\* lines 375-389, for one element
ensure_default_line_height(tag, style) ==
  IF tag \notin LineHeightTags \/ HasLineHeightText(style) THEN style
  ELSE LET stripped == Strip(style, CssSpace)
           closed == IF style # <<>>
                        /\ (stripped = <<>> \/ stripped[Len(stripped)] # ";")
                     THEN stripped \o <<";">> ELSE style
       IN  Strip(closed \o <<"line-height", ":", " ", "1", ";">>, {";"})

Sanitizing == program = "style functions" /\ Len(calls) < MaxCalls /\ st # ValueError

Call_pt_to_px ==
  /\ Sanitizing
  /\ st' = _pt_to_px(st)
  /\ calls' = Append(calls, "_pt_to_px")
  /\ UNCHANGED <<win_vars, inputs, main_vars, mac_vars, upd_vars, rd_vars, el>>

Call_clamp_hairline_borders ==
  /\ Sanitizing
  /\ st' = clamp_hairline_borders(st)
  /\ calls' = Append(calls, "clamp_hairline_borders")
  /\ UNCHANGED <<win_vars, inputs, main_vars, mac_vars, upd_vars, rd_vars, el>>

Call_map_font_families ==
  /\ Sanitizing
  /\ st' = map_font_families(st)
  /\ calls' = Append(calls, "map_font_families")
  /\ UNCHANGED <<win_vars, inputs, main_vars, mac_vars, upd_vars, rd_vars, el>>

Call_ensure_default_line_height ==
  /\ Sanitizing
  /\ st' = ensure_default_line_height(el.tag, st)
  /\ calls' = Append(calls, "ensure_default_line_height")
  /\ UNCHANGED <<win_vars, inputs, main_vars, mac_vars, upd_vars, rd_vars, el>>

NotRead == [fn |-> "", out |-> <<>>, detected |-> FALSE, by |-> ""]

\* ================================================== the readers of a file
\* Bytes are the integers 0..255, a text is the sequence of its code points.
\* The outcome of a decode that raises is one of the two markers below.
UnicodeDecodeError == <<-1>>
LookupError == <<-2>>
Replacement == 65533

IsCont(b) == b >= 128 /\ b <= 191

\* bytes.decode("utf-8"): the length of the sequence a lead byte opens
\* (0: not a lead byte) and the range its second byte must be in
SeqLen(b) ==
  CASE b < 128 -> 1
    [] b >= 194 /\ b <= 223 -> 2
    [] b >= 224 /\ b <= 239 -> 3
    [] b >= 240 /\ b <= 244 -> 4
    [] OTHER -> 0

SecondOk(b1, b2) ==
  CASE b1 = 224 -> b2 >= 160 /\ b2 <= 191
    [] b1 = 237 -> b2 >= 128 /\ b2 <= 159
    [] b1 = 240 -> b2 >= 144 /\ b2 <= 191
    [] b1 = 244 -> b2 >= 128 /\ b2 <= 143
    [] OTHER -> IsCont(b2)

\* how many bytes from position i on are a well-formed start of a sequence
RECURSIVE WellFormed(_, _, _)
WellFormed(bytes, i, k) ==
  IF k >= SeqLen(bytes[i]) \/ i + k > Len(bytes) THEN k
  ELSE IF (k = 1 /\ SecondOk(bytes[i], bytes[i + 1]))
            \/ (k > 1 /\ IsCont(bytes[i + k]))
       THEN WellFormed(bytes, i, k + 1)
       ELSE k

CodePoint(bytes, i, n) ==
  CASE n = 1 -> bytes[i]
    [] n = 2 -> (bytes[i] - 192) * 64 + (bytes[i + 1] - 128)
    [] n = 3 -> (bytes[i] - 224) * 4096 + (bytes[i + 1] - 128) * 64
                  + (bytes[i + 2] - 128)
    [] n = 4 -> (bytes[i] - 240) * 262144 + (bytes[i + 1] - 128) * 4096
                  + (bytes[i + 2] - 128) * 64 + (bytes[i + 3] - 128)

RECURSIVE DecodeUtf8(_, _, _)
DecodeUtf8(bytes, i, errors) ==
  IF i > Len(bytes) THEN <<>>
  ELSE LET n == SeqLen(bytes[i])
           g == IF n = 0 THEN 1 ELSE WellFormed(bytes, i, 1)
       IN  IF n # 0 /\ g = n
           THEN LET rest == DecodeUtf8(bytes, i + n, errors)
                IN  IF rest = UnicodeDecodeError THEN rest
                    ELSE <<CodePoint(bytes, i, n)>> \o rest
           ELSE IF errors = "strict" THEN UnicodeDecodeError
           ELSE LET rest == DecodeUtf8(bytes, i + g, errors)
                IN  IF errors = "replace" THEN <<Replacement>> \o rest
                    ELSE rest

\* the single-byte codecs: the code point of a byte, -1 where the codec has
\* none
Cp1252High ==
  <<8364, -1, 8218, 402, 8222, 8230, 8224, 8225, 710, 8240, 352, 8249, 338,
    -1, 381, -1, -1, 8216, 8217, 8220, 8221, 8226, 8211, 8212, 732, 8482,
    353, 8250, 339, -1, 382, 376>>

Charmap(enc, b) ==
  CASE enc = "latin-1" -> b
    [] enc = "ascii" -> IF b < 128 THEN b ELSE -1
    [] enc = "cp1252" -> IF b >= 128 /\ b <= 159 THEN Cp1252High[b - 127] ELSE b

RECURSIVE DecodeCharmap(_, _, _, _)
DecodeCharmap(enc, bytes, i, errors) ==
  IF i > Len(bytes) THEN <<>>
  ELSE LET c == Charmap(enc, bytes[i])
           rest == DecodeCharmap(enc, bytes, i + 1, errors)
       IN  IF c >= 0
           THEN IF rest = UnicodeDecodeError THEN rest ELSE <<c>> \o rest
           ELSE IF errors = "strict" THEN UnicodeDecodeError
           ELSE IF errors = "replace" THEN <<Replacement>> \o rest
           ELSE rest

\* the codec Python finds under an encoding name, "" when it has none
Codec(name) ==
  CASE name \in {"utf-8", "UTF-8"} -> "utf-8"
    [] name \in {"latin-1", "ISO-8859-1"} -> "latin-1"
    [] name = "Windows-1252" -> "cp1252"
    [] name = "ascii" -> "ascii"
    [] OTHER -> ""

\* bytes.decode(encoding, errors); no codec is looked up for no bytes
decode(bytes, encoding, errors) ==
  LET c == Codec(encoding)
  IN  IF bytes = <<>> THEN <<>>
      ELSE IF c = "" THEN LookupError
      ELSE IF c = "utf-8" THEN DecodeUtf8(bytes, 1, errors)
      ELSE DecodeCharmap(c, bytes, 1, errors)

Raises(t) == t \in {UnicodeDecodeError, LookupError}

\* chardet.detect(raw)["encoding"]: a statistical guess, any of the names
\* chardet reports ("" stands for None; Python has no codec for EUC-TW)
Guesses == {"", "utf-8", "ascii", "ISO-8859-1", "Windows-1252", "EUC-TW"}

Read(fn, out, detected, by) ==
  [fn |-> fn, out |-> out, detected |-> detected, by |-> by]

\* main.py read_file_text, lines 347-363
read_file_text(bytes, guess) ==
  LET utf8 == decode(bytes, "utf-8", "strict")
      enc == IF guess # "" THEN guess ELSE "latin-1"
      guessed == decode(bytes, enc, "strict")
  IN  IF ~Raises(utf8) THEN Read("read_file_text", utf8, FALSE, "utf-8")
      ELSE IF ~Raises(guessed) THEN Read("read_file_text", guessed, TRUE, enc)
      ELSE Read("read_file_text", decode(bytes, "latin-1", "replace"), TRUE,
                "latin-1")

\* main_mac_ready.py _read_text_guess_encoding, lines 202-213
\* (guess "ImportError": chardet is not installed, nothing is consulted)
_read_text_guess_encoding(bytes, guess) ==
  LET enc == IF guess \notin {"", "ImportError"} THEN guess ELSE "utf-8"
  IN  Read("_read_text_guess_encoding", decode(bytes, enc, "ignore"),
           guess # "ImportError", enc)

Call_read_file_text ==
  /\ program = "readers"
  /\ read_out = NotRead
  /\ \E guess \in Guesses : read_out' = read_file_text(raw_bytes, guess)
  /\ UNCHANGED <<win_vars, inputs, main_vars, mac_vars, san_vars, upd_vars, raw_bytes>>

Call_read_text_guess_encoding ==
  /\ program = "readers"
  /\ read_out = NotRead
  /\ \E guess \in Guesses \cup {"ImportError"} :
       read_out' = _read_text_guess_encoding(raw_bytes, guess)
  /\ UNCHANGED <<win_vars, inputs, main_vars, mac_vars, san_vars, upd_vars, raw_bytes>>

\* ============================================ protect / unprotect a secret
\* A text is the sequence of its code points, a token the sequence of its
\* characters with its prefix ("DPAPI:", "KEYRING:", "B64:") as one element.
RECURSIVE EncodeUtf8(_)
EncodeUtf8(cps) ==
  IF cps = <<>> THEN <<>>
  ELSE LET c == Head(cps)
       IN  (CASE c < 128 -> <<c>>
              [] c >= 128 /\ c < 2048 -> <<192 + (c \div 64), 128 + (c % 64)>>
              [] c >= 2048 /\ c < 65536 ->
                   <<224 + (c \div 4096), 128 + ((c \div 64) % 64), 128 + (c % 64)>>
              [] OTHER ->
                   <<240 + (c \div 262144), 128 + ((c \div 4096) % 64),
                     128 + ((c \div 64) % 64), 128 + (c % 64)>>)
             \o EncodeUtf8(Tail(cps))

B64Chars ==
  <<"A", "B", "C", "D", "E", "F", "G", "H", "I", "J", "K", "L", "M", "N", "O",
    "P", "Q", "R", "S", "T", "U", "V", "W", "X", "Y", "Z", "a", "b", "c", "d",
    "e", "f", "g", "h", "i", "j", "k", "l", "m", "n", "o", "p", "q", "r", "s",
    "t", "u", "v", "w", "x", "y", "z", "0", "1", "2", "3", "4", "5", "6", "7",
    "8", "9", "+", "/">>
B64Char(n) == B64Chars[n + 1]
B64Value(ch) == (CHOOSE i \in 1..64 : B64Chars[i] = ch) - 1
IsB64Char(ch) == \E i \in 1..64 : B64Chars[i] = ch
BinasciiError == <<-3>>
\* ord() of a character of base64 text
Ord(ch) ==
  IF ch = "=" THEN 61
  ELSE LET v == B64Value(ch)
       IN  CASE v < 26 -> 65 + v
             [] v >= 26 /\ v < 52 -> 71 + v
             [] v >= 52 /\ v < 62 -> v - 4
             [] v = 62 -> 43
             [] OTHER -> 47

RECURSIVE b64encode(_)
b64encode(bytes) ==
  IF bytes = <<>> THEN <<>>
  ELSE LET b1 == bytes[1]
           b2 == IF Len(bytes) >= 2 THEN bytes[2] ELSE 0
           b3 == IF Len(bytes) >= 3 THEN bytes[3] ELSE 0
       IN  <<B64Char(b1 \div 4), B64Char(((b1 % 4) * 16) + (b2 \div 16)),
             IF Len(bytes) >= 2 THEN B64Char(((b2 % 16) * 4) + (b3 \div 64)) ELSE "=",
             IF Len(bytes) >= 3 THEN B64Char(b3 % 64) ELSE "=">>
             \o (IF Len(bytes) > 3 THEN b64encode(SubSeq(bytes, 4, Len(bytes)))
                 ELSE <<>>)

\* base64.b64decode of padded base64 text
RECURSIVE b64decode(_)
b64decode(chars) ==
  IF chars = <<>> THEN <<>>
  ELSE IF Len(chars) < 4 \/ ~IsB64Char(chars[1]) \/ ~IsB64Char(chars[2])
            \/ (chars[3] = "=" /\ (chars[4] # "=" \/ Len(chars) > 4))
            \/ (chars[3] # "=" /\ ~IsB64Char(chars[3]))
            \/ (chars[4] = "=" /\ Len(chars) > 4)
            \/ (chars[4] # "=" /\ ~IsB64Char(chars[4]))
       THEN BinasciiError
  ELSE LET s1 == B64Value(chars[1])
           s2 == B64Value(chars[2])
           s3 == IF chars[3] = "=" THEN 0 ELSE B64Value(chars[3])
           s4 == IF chars[4] = "=" THEN 0 ELSE B64Value(chars[4])
           group == <<(s1 * 4) + (s2 \div 16)>>
                      \o (IF chars[3] = "=" THEN <<>>
                          ELSE <<((s2 % 16) * 16) + (s3 \div 4)>>)
                      \o (IF chars[4] = "=" THEN <<>>
                          ELSE <<((s3 % 4) * 64) + s4>>)
           rest == b64decode(SubSeq(chars, 5, Len(chars)))
       IN  IF rest = BinasciiError THEN rest ELSE group \o rest

\* win32crypt.CryptProtectData / CryptUnprotectData: the blob of the
\* operating system, which only CryptUnprotectData turns back into the data
CryptProtectData(data) == <<1>> \o [i \in 1..Len(data) |-> (data[i] + 7) % 256]
CryptUnprotectData(blob) ==
  IF blob = <<>> \/ blob[1] # 1 THEN BinasciiError
  ELSE [i \in 1..(Len(blob) - 1) |-> (blob[i + 1] + 249) % 256]

\* keyring.get_password for a key never set
NoPassword == <<-4>>

\* main_mac_ready.py protect_cleartext, lines 60-76: the token returned and
\* the keychain afterwards
mac_protect_cleartext(txt, chain) ==
  IF HAS_DPAPI
  THEN [token |-> <<"DPAPI:">> \o b64encode(CryptProtectData(EncodeUtf8(txt))),
        chain |-> chain]
  ELSE IF HAS_KEYRING
  THEN [token |-> <<"KEYRING:", "application_password">>, chain |-> txt]
  ELSE [token |-> <<"B64:">> \o b64encode(EncodeUtf8(txt)), chain |-> chain]

\* the text of decoded bytes, "" when an exception is caught
TextOrEmpty(bytes) ==
  IF bytes = BinasciiError THEN <<>>
  ELSE LET t == DecodeUtf8(bytes, 1, "strict")
       IN  IF t = UnicodeDecodeError THEN <<>> ELSE t

\* main_mac_ready.py unprotect_to_cleartext, lines 79-97
mac_unprotect_to_cleartext(protected, chain) ==
  IF protected = <<>> THEN <<>>
  ELSE IF protected[1] = "DPAPI:" /\ HAS_DPAPI
  THEN LET b == b64decode(Tail(protected))
       IN  TextOrEmpty(IF b = BinasciiError THEN b ELSE CryptUnprotectData(b))
  ELSE IF protected[1] = "KEYRING:" /\ HAS_KEYRING
  THEN IF chain = NoPassword THEN <<>> ELSE chain
  ELSE IF protected[1] = "B64:" THEN TextOrEmpty(b64decode(Tail(protected)))
  ELSE <<>>

\* main.py protect_cleartext, lines 98-109
protect_cleartext(txt) ==
  IF HAS_DPAPI THEN b64encode(CryptProtectData(EncodeUtf8(txt)))
  ELSE <<"B64:">> \o b64encode(EncodeUtf8(txt))

\* main.py unprotect_to_cleartext, lines 112-124
unprotect_to_cleartext(protected) ==
  IF protected = <<>> THEN <<>>
  ELSE IF HAS_DPAPI
  THEN LET b == b64decode(protected)
       IN  TextOrEmpty(IF b = BinasciiError THEN b ELSE CryptUnprotectData(b))
  ELSE IF protected[1] = "B64:" THEN TextOrEmpty(b64decode(Tail(protected)))
  ELSE [i \in 1..Len(protected) |-> Ord(protected[i])]

NotRecovered == [i |-> 0, out |-> <<>>]

\* the secrets handed to protect_cleartext: a, e-acute, the euro sign
SecretChars == {97, 233, 8364}
Secrets == UNION {[1..n -> SecretChars] : n \in 0..MaxSecret}

Call_protect_cleartext ==
  /\ program = "credentials"
  /\ Len(issued) < MaxProtects
  /\ \E txt \in Secrets :
       IF cred_file = "main.py"
       THEN /\ issued' = Append(issued, [token |-> protect_cleartext(txt),
                                         text |-> txt])
            /\ UNCHANGED keychain
       ELSE LET r == mac_protect_cleartext(txt, keychain)
            IN  /\ issued' = Append(issued, [token |-> r.token, text |-> txt])
                /\ keychain' = r.chain
  /\ UNCHANGED <<inputs, main_vars, mac_vars, san_vars, upd_vars, rd_vars, login_vars,
                 undo_vars, HAS_DPAPI, HAS_KEYRING, cred_file, recovered>>

Call_unprotect_to_cleartext ==
  /\ program = "credentials"
  /\ \E i \in 1..Len(issued) :
       recovered' =
         [i |-> i,
          out |-> IF cred_file = "main.py"
                  THEN unprotect_to_cleartext(issued[i].token)
                  ELSE mac_unprotect_to_cleartext(issued[i].token, keychain)]
  /\ UNCHANGED <<inputs, main_vars, mac_vars, san_vars, upd_vars, rd_vars, login_vars,
                 undo_vars, HAS_DPAPI, HAS_KEYRING, cred_file, keychain, issued>>

\* ============================================================ main.py, login
\* Log in starts a worker thread per click; the threads share self.wp and
\* hand their results to the window through queued signals.
MaxLogins == 2

\* the accounts a login names by url, username and application password
Accounts == {1, 2}

\* self.wp: None, or the client built for the request of worker req
NoClient == [req |-> 0, account |-> 0]
WPClient(req, account) == [req |-> req, account |-> account]

\* list_pages, lines 182-202: the (id, title) pairs of the client's site
list_pages(client) == <<10 * client.account + 1, 10 * client.account + 2>>

UpdateWorker(account) ==
  [account |-> account, at |-> "started", client |-> NoClient, success |-> FALSE]

pages_ready(pages) == [sig |-> "pages_ready", pages |-> pages, ok |-> TRUE]
done(ok) == [sig |-> "done", pages |-> <<>>, ok |-> ok]

login_frame == <<inputs, main_vars, mac_vars, san_vars, rd_vars, undo_vars, cred_vars>>

\* lines 1517-1542: a warning when a field is empty (account 0), otherwise a
\* new worker is started and the progress bar is reset
on_login_clicked ==
  /\ program = "login"
  /\ \E account \in Accounts \cup {0} :
       IF account = 0
       THEN /\ warned' = TRUE
            /\ UNCHANGED <<workers, ui>>
       ELSE /\ Len(workers) < MaxLogins
            /\ workers' = Append(workers, UpdateWorker(account))
            /\ ui' = [ui EXCEPT !.progress = 0]
            /\ UNCHANGED warned
  /\ UNCHANGED <<login_frame, wp, pending, page_combo, defaults, chk_remember>>

\* line 1530, in the worker's thread: self.wp = WPClient(url, username, apppw)
task_connect ==
  /\ program = "login"
  /\ \E w \in 1..Len(workers) :
       /\ workers[w].at = "started"
       /\ wp' = WPClient(w, workers[w].account)
       /\ workers' = [workers EXCEPT ![w].at = "connected"]
  /\ UNCHANGED <<login_frame, ui, pending, page_combo, defaults, chk_remember, warned>>

\* line 1531, first half: self.wp is read and its list_pages is called
task_call_list_pages ==
  /\ program = "login"
  /\ \E w \in 1..Len(workers) :
       /\ workers[w].at = "connected"
       /\ workers' = [workers EXCEPT ![w].at = "listing", ![w].client = wp]
  /\ UNCHANGED <<login_frame, ui, wp, pending, page_combo, defaults, chk_remember, warned>>

\* lines 1531-1535, 626-630 and 1538: list_pages returns or raises; the
\* pages are emitted, the defaults are saved when "remember" is checked,
\* and the finished thread emits done
task_list_pages_returns ==
  /\ program = "login"
  /\ \E w \in 1..Len(workers), ok \in BOOLEAN :
       /\ workers[w].at = "listing"
       /\ workers' = [workers EXCEPT ![w].at = "finished", ![w].success = ok]
       /\ pending' = pending
                       \o (IF ok THEN <<pages_ready(list_pages(workers[w].client))>>
                           ELSE <<>>)
                       \o <<done(ok)>>
       /\ defaults' = IF ok /\ chk_remember THEN workers[w].account ELSE defaults
  /\ UNCHANGED <<login_frame, ui, wp, page_combo, chk_remember, warned>>

\* lines 1406-1414, in the window's thread: the dropdown is cleared and filled
populate_pages ==
  /\ program = "login"
  /\ pending # <<>>
  /\ Head(pending).sig = "pages_ready"
  /\ page_combo' = Head(pending).pages
  /\ pending' = Tail(pending)
  /\ UNCHANGED <<login_frame, ui, wp, workers, defaults, chk_remember, warned>>

\* lines 1396-1399, in the window's thread
on_done ==
  /\ program = "login"
  /\ pending # <<>>
  /\ Head(pending).sig = "done"
  /\ ui' = [ui EXCEPT !.progress = 100]
  /\ pending' = Tail(pending)
  /\ UNCHANGED <<login_frame, wp, workers, page_combo, defaults, chk_remember, warned>>

\* ----------------------------------------------------------- the inputs
\* references
RefSub == <<"img", "a.png">>
RefA == <<"a.png">>
RefMissing == <<"missing.png">>
RefHttp == <<"http:", "host", "a.png">>
RefFragment == <<"#top">>
RefSheetInFiles == <<"doc_files", "sheet001.htm">>
RefSheet == <<"sheet001.htm">>
RefCss == <<"s.css">>
RefCssMissing == <<"missing.css">>

FileUniverse ==
  {StemFiles \o RefSub, root_dir \o RefSub, StemFiles \o RefA, root_dir \o RefA,
   StemFiles \o RefCss, StemFiles \o <<"t.css">>, root_dir \o RefCss,
   StemFiles \o RefSheet, root_dir \o RefSheet}

DirsOf(F) == UNION {{SubSeq(f, 1, k) : k \in 1..(Len(f) - 1)} : f \in F}

P(style, kids) == Node("p", <<>>, "", style, <<>>, kids)
Span(style, kids) == Node("span", <<>>, "", style, <<>>, kids)
Comment(raw) == Node("#comment", <<>>, "", <<>>, raw, <<>>)

ImgRefs == {RefSub, RefA, RefMissing, RefHttp, RefFragment}

\* documents whose references are resolved against every file system
SmallDocs ==
  {[soup |-> Document(<<>>, <<Img(r)>>), sheet |-> <<>>] : r \in ImgRefs}
    \cup {[soup |-> FramesetDocument(<<>>, <<Frame(c)>>), sheet |-> <<Img(r)>>] :
            c \in {RefSheetInFiles, RefSheet, <<"doc_files">>},
            r \in {RefSub, RefA}}

HeadSamples ==
  {<<>>,
   <<Link("Stylesheet", RefCss)>>,
   <<Link("stylesheet", RefCssMissing)>>,
   <<StyleBlock(<<Tok("url(", RefA)>>)>>}

BodyNodes ==
  {Img(RefA),
   Img(RefMissing),
   P(<<>>, <<Span(<<>>, <<Img(RefA)>>)>>),
   P(<<>>, <<Span(<<>>, <<StyleBlock(<<Tok("rule", <<"in-span">>)>>)>>)>>),
   El("div", <<StyleBlock(<<Tok("rule", <<"in-div">>)>>), Text(<<T("d")>>)>>),
   Link("stylesheet", RefCss),
   StyleBlock(<<Tok("url(", RefA)>>),
   P(<<"mso-margin-top-alt:auto", "color:red">>,
     <<Text(<<T("x"), T("nbsp"), T("nl"), T("y")>>)>>),
   P(<<>>, <<Span(<<"mso-spacerun:yes">>, <<Text(<<T("nbsp"), T("nbsp")>>)>>),
             Text(<<T("z")>>)>>),
   Comment(<<T("<"), T("<"), T("html"), T(">"), T("body"), T(">")>>),
   Comment(<<T("[if"), T("mso"), T("]>"), T("x"), T("<!["), T("endif]")>>),
   El("header", <<Text(<<T("h")>>)>>),
   El("script", <<>>)}

RECURSIVE SeqsUpTo(_, _)
SeqsUpTo(S, n) ==
  IF n = 0 THEN {<<>>}
  ELSE SeqsUpTo(S, n - 1)
         \cup {Append(q, x) : q \in {t \in SeqsUpTo(S, n - 1) : Len(t) = n - 1}, x \in S}

FileSystemSamples ==
  {FileUniverse, {}, {root_dir \o RefA, root_dir \o RefCss}}

InitInputsFS ==
  \E F \in SUBSET FileUniverse, a \in BOOLEAN, d \in SmallDocs :
    /\ files = F
    /\ dirs = {<<"/">>, root_dir} \cup DirsOf(F)
                \cup (IF a THEN {StemFiles} ELSE {})
    /\ soup = d.soup
    /\ sheet_body = d.sheet

InitInputsDoc ==
  \E F \in FileSystemSamples, h \in HeadSamples,
     b \in SeqsUpTo(BodyNodes, MaxBody) :
    /\ files = F
    /\ dirs = {<<"/">>, root_dir} \cup DirsOf(F)
    /\ soup = Document(h, b)
    /\ sheet_body = <<>>

\* framesets whose frames carry no source, an empty source, the source of a
\* worksheet or of a file that is nowhere, with and without a
\* worksheet-source hint that names another worksheet
RefHint == <<"doc_files", "sheet002.htm">>
WorksheetSource(href) == Node("x:worksheetsource", href, "", <<>>, <<>>, <<>>)

FrameSamples ==
  {Frame(<<>>), Frame(<<"">>), Frame(RefSheetInFiles), Frame(<<"missing.htm">>)}

InitInputsFrames ==
  \E F \in SUBSET {StemFiles \o RefSheet, root_dir \o RefHint},
     h \in {<<>>, <<WorksheetSource(RefHint)>>},
     fr \in SeqsUpTo(FrameSamples, 2) \ {<<>>} :
    /\ files = F
    /\ dirs = {<<"/">>, root_dir} \cup DirsOf(F)
    /\ soup = FramesetDocument(h, fr)
    /\ sheet_body = <<Img(RefA)>>

\* documents that refer to files by an absolute path outside the
\* document's directory
RefOutside == <<"/", "etc", "a.png">>
RefOutsideCss == <<"/", "etc", "s.css">>

InitInputsOutside ==
  \E F \in SUBSET {RefOutside, RefOutsideCss, StemFiles \o RefA},
     h \in {<<>>, <<Link("stylesheet", RefOutsideCss)>>},
     b \in SeqsUpTo({Img(RefOutside), Img(RefA)}, 1) :
    /\ files = F
    /\ dirs = {<<"/">>, root_dir} \cup DirsOf(F)
    /\ soup = Document(h, b)
    /\ sheet_body = <<>>

\* the documents and files main_mac_ready.py is run on: full documents and
\* bare fragments, a companion directory with up to two subdirectories
MacFileUniverse ==
  {StemFiles \o RefSub, StemFiles \o <<"alt", "a.png">>, StemFiles \o RefA,
   root_dir \o RefA, StemFiles \o RefCss}

MacBodies ==
  SeqsUpTo(BodyNodes \cup {Img(RefHttp), Link("stylesheet", <<"img">>)}, 1)

InitInputsMac ==
  \E F \in SUBSET MacFileUniverse,
     d \in MacBodies \cup {Document(h, b) : h \in HeadSamples, b \in MacBodies} :
    /\ files = F
    /\ dirs = {<<"/">>, root_dir} \cup DirsOf(F)
    /\ soup = d
    /\ sheet_body = <<>>

\* the declarations an inline style is drawn from
Declarations ==
  {<<"font-size", ":", " ", "1", "2", "p", "t">>,
   <<"margin", ":", ".", "5", "p", "t", " ", "1", "0", ".", "5", " ", "p", "t">>,
   <<"width", ":", " ", "9", "p", "x">>,
   <<".", "p", "t", "-", "4">>,
   <<"border", ":", " ", "0", ".", "5", "p", "t", " ", "solid", " ", "#000000">>,
   <<"border", "-top", ":", "0", ".", "5", "p", "t", " ", "solid", " ", "red">>,
   <<"border", ":", " ", "1", "p", "t", " ", "solid", " ", "red">>,
   <<"font-family", ":", " ", "Calibri">>,
   <<"font-family", ":", "'", "Arial", "'", ",", " ", "CALIBRI">>,
   <<"font-family", ":", " ", "Foo">>,
   <<"mso-bidi-", "font-family", ":", "Times New Roman">>,
   <<"line-height", ":", " ", "1", ".", "5">>,
   <<"mso-line-height-rule", ":", "exactly">>,
   <<"color", ":", "red">>}

RECURSIVE JoinDecls(_)
JoinDecls(ds) ==
  IF ds = <<>> THEN <<>>
  ELSE IF Len(ds) = 1 THEN ds[1]
  ELSE ds[1] \o <<";">> \o JoinDecls(Tail(ds))

\* no style attribute, or declarations with or without the last semicolon
StyleTexts ==
  {JoinDecls(ds) \o end :
     ds \in SeqsUpTo(Declarations, MaxDecls), end \in {<<>>, <<";">>}}

InitInputsStyle ==
  /\ el \in [tag : {"p", "span", "td"}, style : StyleTexts]
  /\ st = el.style
  /\ files = {}
  /\ dirs = {<<"/">>, root_dir}
  /\ soup = <<>>
  /\ sheet_body = <<>>

\* the window as constructed, with or without a temp_backup.html left in the
\* working directory by an earlier session
InitInputsWindow ==
  /\ temp_backup \in {NoBackup, StaleBackup}
  /\ ui = [Window(FALSE) EXCEPT !.backup = (temp_backup # NoBackup)]
  /\ files = {}
  /\ dirs = {<<"/">>, root_dir}
  /\ soup = <<>>
  /\ sheet_body = <<>>

\* the backends present: DPAPI on Windows with pywin32, the keyring module
\* (main_mac_ready.py only), neither
InitInputsSecrets ==
  /\ cred_file \in {"main.py", "main_mac_ready.py"}
  /\ HAS_DPAPI \in BOOLEAN
  /\ HAS_KEYRING \in (IF cred_file = "main.py" THEN {FALSE} ELSE BOOLEAN)
  /\ files = {}
  /\ dirs = {<<"/">>, root_dir}
  /\ soup = <<>>
  /\ sheet_body = <<>>

\* the window before the first login: no document is involved
InitInputsLogin ==
  /\ files = {}
  /\ dirs = {<<"/">>, root_dir}
  /\ soup = <<>>
  /\ sheet_body = <<>>

NoElement == [tag |-> "", style |-> <<>>]

\* the bytes a read file is drawn from: a, the two bytes of e-acute in
\* UTF-8 (C3 A9), e-acute in Latin-1 (E9, with 81 A9 a three-byte UTF-8
\* sequence), and 81, which Windows-1252 leaves undefined
ByteSamples == {97, 195, 169, 233, 129}
InitInputsBytes ==
  /\ raw_bytes \in UNION {[1..n -> ByteSamples] : n \in 0..MaxBytes}
  /\ files = {}
  /\ dirs = {<<"/">>, root_dir}
  /\ soup = <<>>
  /\ sheet_body = <<>>

Init ==
  /\ \/ /\ InitInputsFS \/ InitInputsDoc \/ InitInputsFrames \/ InitInputsOutside
        /\ program = "main.py"
        /\ el = NoElement /\ st = <<>>
        /\ pc = "clicked"
        /\ ui \in {Window(c) : c \in BOOLEAN}
        /\ raw_bytes = <<>>
     \/ /\ InitInputsMac
        /\ program = "main_mac_ready.py"
        /\ el = NoElement /\ st = <<>>
        /\ pc = "start"
        /\ ui = Window(FALSE)
        /\ raw_bytes = <<>>
     \/ /\ InitInputsStyle
        /\ program = "style functions"
        /\ pc = "start"
        /\ ui = Window(FALSE)
        /\ raw_bytes = <<>>
     \/ /\ InitInputsBytes
        /\ program = "readers"
        /\ el = NoElement /\ st = <<>>
        /\ pc = "start"
        /\ ui = Window(FALSE)
     \/ /\ InitInputsWindow
        /\ program = "upload and undo"
        /\ el = NoElement /\ st = <<>>
        /\ pc = "start"
        /\ raw_bytes = <<>>
     \/ /\ InitInputsSecrets
        /\ program = "credentials"
        /\ el = NoElement /\ st = <<>>
        /\ pc = "start"
        /\ ui = Window(FALSE)
        /\ raw_bytes = <<>>
     \/ /\ InitInputsLogin
        /\ program = "login"
        /\ el = NoElement /\ st = <<>>
        /\ pc = "start"
        /\ ui = Window(FALSE)
        /\ raw_bytes = <<>>
  /\ program # "upload and undo" => temp_backup = NoBackup
  /\ chk_remember \in (IF program = "login" THEN BOOLEAN ELSE {FALSE})
  /\ wp = NoClient
  /\ workers = <<>>
  /\ pending = <<>>
  /\ page_combo = <<>>
  /\ defaults = 0
  /\ warned = FALSE
  /\ program # "credentials" =>
       HAS_DPAPI = FALSE /\ HAS_KEYRING = FALSE /\ cred_file = ""
  /\ keychain = NoPassword
  /\ issued = <<>>
  /\ recovered = NotRecovered
  /\ site = [p \in Pages |-> Original(p)]
  /\ last_page_id = 0
  /\ last_upload = NoWrite
  /\ undone = NoWrite
  /\ clicks = 0
  /\ calls = <<>>
  /\ read_out = NotRead
  /\ mac_runs = 0
  /\ mac_out = <<>>
  /\ mac_prev = <<>>
  /\ assets_dir = None
  /\ content_soup = <<>>
  /\ sheet_path = None
  /\ content = <<>>
  /\ inline_styles = <<>>
  /\ css_bundle = <<>>
  /\ bundled_css_text = <<>>
  /\ wrapper = <<>>
  /\ frag = <<>>
  /\ stages = <<>>

Next ==
  \/ on_login_clicked
  \/ task_connect
  \/ task_call_list_pages
  \/ task_list_pages_returns
  \/ populate_pages
  \/ on_done
  \/ Call_protect_cleartext
  \/ Call_unprotect_to_cleartext
  \/ ToggleConfirm
  \/ Update
  \/ on_undo_clicked
  \/ on_update_clicked
  \/ on_update_except
  \/ CheckAndUpload
  \/ ReadAndParse
  \/ Frameset
  \/ ExtractBody
  \/ InlineImgs
  \/ InlineLinks
  \/ GlobCss
  \/ RewriteCss
  \/ Spacerun
  \/ Collapse
  \/ Assemble
  \/ Cleanup
  \/ MacInvoke
  \/ process_file_for_upload
  \/ Call_pt_to_px
  \/ Call_clamp_hairline_borders
  \/ Call_map_font_families
  \/ Call_ensure_default_line_height
  \/ Call_read_file_text
  \/ Call_read_text_guess_encoding

Spec == Init /\ [][Next]_vars

\* ------------------------------------------------------------- properties
\* the document the content is taken from, and its images in document order
SourceSoup == IF sheet_path # None THEN SheetSoup(sheet_path) ELSE soup
OriginalImgs == FindAll(SourceSoup, {"img"})
ContentImgs == FindAll(content, {"img"})

IsRelativeRef(src) ==
  ~Falsy(src) /\ src[1] # "/" /\ ~IsSchemeQualified(src) /\ ~IsDataUri(src)

\* the four candidates of the resolver, in the documented order
Candidates(src) ==
  (IF Exists(assets_dir) THEN <<assets_dir \o src>> ELSE <<>>)
    \o <<root_dir \o src>>
    \o (IF Exists(assets_dir) THEN <<assets_dir \o Name(src)>> ELSE <<>>)
    \o <<root_dir \o Name(src)>>

FirstExisting(paths) ==
  IF \E i \in 1..Len(paths) : Exists(paths[i])
  THEN paths[CHOOSE i \in 1..Len(paths) :
               Exists(paths[i]) /\ \A j \in 1..(i - 1) : ~Exists(paths[j])]
  ELSE None

\* C1: for a relative reference the resolver returns the first existing of
\* asset_directory/reference, document_directory/reference,
\* asset_directory/filename, document_directory/filename (the asset
\* directory candidates only when that directory exists), and not-found
\* exactly when none exists; the image inliner embeds exactly that file.
C1_FirstExistingCandidateWins ==
  pc = "links" =>
    /\ \A src \in ImgRefs \cup {RefCss} :
         IsRelativeRef(src) => resolve_local(src) = FirstExisting(Candidates(src))
    /\ Len(ContentImgs) = Len(OriginalImgs)
    /\ \A i \in 1..Len(OriginalImgs) :
         LET src == OriginalImgs[i].ref
             hit == FirstExisting(Candidates(src))
         IN  IsRelativeRef(src) =>
               ContentImgs[i].ref =
                 IF hit \in files THEN data_uri_for(hit) ELSE src

\* C1 witness: of the four candidates of img/a.png only the two by-filename
\* ones exist, and the image carries the one in the asset directory.
C1_Witness ==
  /\ pc = "links"
  /\ soup = Document(<<>>, <<Img(RefSub)>>)
  /\ files \cap {StemFiles \o RefSub, root_dir \o RefSub,
                 StemFiles \o RefA, root_dir \o RefA}
       = {StemFiles \o RefA, root_dir \o RefA}
  /\ content = <<Img(data_uri_for(StemFiles \o RefA))>>

\* C2: a scheme-qualified reference (http:, data:, mailto:, #...) is never
\* resolved, whatever files exist, and the attribute carrying it is left
\* untouched.
C2_SchemeReferencesNeverResolved ==
  pc = "links" =>
    \A i \in 1..Len(OriginalImgs) :
      IsSchemeQualified(OriginalImgs[i].ref) =>
        /\ resolve_local(OriginalImgs[i].ref) = None
        /\ i <= Len(ContentImgs)
        /\ ContentImgs[i].ref = OriginalImgs[i].ref

HasFrameSrc(c) == soup = FramesetDocument(<<>>, <<Frame(c)>>)

\* the frame source names the worksheet in <stem>_files: by its path, or by
\* its bare name when the document's own directory holds no such file
FrameNamesSheetInFiles ==
  /\ StemFiles \o RefSheet \in files
  /\ \/ HasFrameSrc(RefSheetInFiles)
     \/ HasFrameSrc(RefSheet) /\ ~Exists(root_dir \o RefSheet)

\* inline_assets_and_clean was called and is past its frameset step
FramesetHandled ==
  /\ pc \notin {"clicked", "start", "frameset"}
  /\ pc = "returned" =>
       \E i \in 1..Len(ui.calls) : ui.calls[i] = "inline_assets_and_clean"

\* C7: for a frameset whose frame names sheet001.htm in <stem>_files the
\* content is that of sheet001.htm, the asset directory is its directory,
\* and a reference that exists there and in the document's own directory is
\* resolved to the file in <stem>_files.
C7_FramesetLoadsSheetFromFiles ==
  (FrameNamesSheetInFiles /\ FramesetHandled) =>
    /\ sheet_path = StemFiles \o RefSheet
    /\ assets_dir = StemFiles
    /\ pc = "extract" => content_soup = SheetSoup(StemFiles \o RefSheet)
    /\ pc \in {"imgs", "links"} =>
         /\ content # <<>>
         /\ content[1] = Text(<<Tok("sheet", StemFiles \o RefSheet)>>)
    /\ pc = "links" =>
         \A i \in 1..Len(sheet_body) :
           LET src == sheet_body[i].ref
           IN  (StemFiles \o src \in files /\ root_dir \o src \in files) =>
                 content[i + 1].ref = data_uri_for(StemFiles \o src)

\* C7 witness: the frame names the bare sheet001.htm, a.png exists in both
\* directories, and the sheet's image carries the one of <stem>_files.
C7_Witness ==
  /\ pc = "links"
  /\ HasFrameSrc(RefSheet)
  /\ FrameNamesSheetInFiles
  /\ sheet_body = <<Img(RefA)>>
  /\ {StemFiles \o RefA, root_dir \o RefA} \subseteq files
  /\ content = <<Text(<<Tok("sheet", StemFiles \o RefSheet)>>),
                 Img(data_uri_for(StemFiles \o RefA))>>

\* the stylesheet links of the document the content is taken from
OriginalLinks == SelectSeq(FindAll(SourceSoup, {"link"}), IsStylesheetLink)

Finished == program = "main.py" /\ pc = "done"

\* the fragment still carries attribute `kind` of an element `tag` with `ref`
FragHas(tag, kind, ref) ==
  \E i \in 2..Len(frag) : frag[i] = Tok(kind, ref) /\ frag[i - 1].k = tag

\* C3: no image src and no stylesheet link href that resolves to an existing
\* local file is left in the fragment as a relative reference, whether the
\* referencing element sat in the head or in the body.
C3_ResolvedReferencesAllEmbedded ==
  Finished =>
    \A i \in 2..Len(frag) :
      LET t == frag[i]
      IN  (/\ \/ t.k = "src=" /\ frag[i - 1].k = "img"
              \/ t.k = "href=" /\ frag[i - 1].k = "link"
           /\ IsRelativeRef(t.p))
            => resolve_local(t.p) \notin files

\* C4: every image src and stylesheet link href that cannot be resolved to
\* an existing local file is still present, unchanged, in the output: the
\* referencing element is neither removed nor rewritten.
C4_UnresolvedReferencesPreserved ==
  Finished =>
    /\ \A i \in 1..Len(OriginalImgs) :
         LET src == OriginalImgs[i].ref
         IN  (IsRelativeRef(src) /\ resolve_local(src) = None)
               => FragHas("img", "src=", src)
    /\ \A i \in 1..Len(OriginalLinks) :
         LET href == OriginalLinks[i].ref
         IN  (IsRelativeRef(href) /\ resolve_local(href) = None)
               => FragHas("link", "href=", href)

HasWrapperTag(toks) ==
  \E i \in 1..(Len(toks) - 1) :
    /\ toks[i].k = "<"
    /\ \/ toks[i + 1].k \in WrapperNames
       \/ /\ toks[i + 1].k = "/"
          /\ i + 2 <= Len(toks)
          /\ toks[i + 2].k \in WrapperNames

\* C5: the string returned by the cleaning pipeline contains no html, head
\* or body opening or closing tag, for full documents and bare fragments.
C5_NoWrapperTagsInOutput ==
  /\ Finished => ~HasWrapperTag(frag)
  /\ (program = "main_mac_ready.py" /\ mac_runs >= 1) => ~HasWrapperTag(mac_out)

\* C6: two invocations on the same document with an unchanged file system
\* return identical output, whatever the order in which directories are
\* enumerated.
C6_RepeatedInvocationSameOutput ==
  (program = "main_mac_ready.py" /\ mac_runs = 2) => mac_out = mac_prev

\* C8: for an .html document without a sibling asset directory the pipeline
\* completes without raising and every local asset reference the resolver
\* cannot find is in the fragment as its original string: none is dropped.
C8_MissingAssetDirectoryKeepsReferences ==
  (/\ program = "main.py"
   /\ StemFiles \notin dirs
   /\ FindAll(soup, {"frameset"}) = <<>>) =>
    /\ pc # "raised"
    /\ pc = "done" =>
         /\ \A i \in 1..Len(FindAll(soup, {"img"})) :
              LET src == FindAll(soup, {"img"})[i].ref
              IN  (IsRelativeRef(src) /\ resolve_local(src) = None)
                    => \E j \in 1..Len(frag) : frag[j] = Tok("src=", src)
         /\ \A i \in 1..Len(OriginalLinks) :
              LET href == OriginalLinks[i].ref
              IN  (IsRelativeRef(href) /\ resolve_local(href) = None)
                    => \E j \in 1..Len(frag) : frag[j] = Tok("href=", href)

StatedStages == <<"normalize", "inline", "sanitize", "clean", "assemble">>

\* C9: every conversion runs Dialect Normalizer, Resource Resolver/Asset
\* Inliner, Style Sanitizer, Whitespace/Markup Cleaner and Fragment
\* Assembler in this order and skips none.
C9_StagesInStatedOrder == Finished => stages = StatedStages

HasVendorPrefix(decl) == decl \in {"mso-margin-top-alt:auto", "mso-spacerun:yes"}

\* C10: in the output no element's inline style has a declaration whose
\* property name begins with mso- or -ms-.
C10_NoVendorDeclarationsInOutput ==
  Finished =>
    \A i \in 1..Len(frag) :
      frag[i].k = "style=" =>
        \A d \in 1..Len(frag[i].p) : ~HasVendorPrefix(frag[i].p[d])

\* ------------------------------------------------- the style functions
\* the declarations of a style text, in order: the pieces between semicolons
RECURSIVE DeclSeq(_)
DeclSeq(text) ==
  IF text = <<>> THEN <<>>
  ELSE LET semi == IndexFrom(text, 1, ";")
       IN  IF semi = 0 THEN <<text>>
           ELSE (IF semi = 1 THEN <<>> ELSE <<SubSeq(text, 1, semi - 1)>>)
                  \o DeclSeq(SubSeq(text, semi + 1, Len(text)))

DeclSet(text) == {DeclSeq(text)[i] : i \in 1..Len(DeclSeq(text))}

OnlyCall(f) == program = "style functions" /\ calls = <<f>>

\* C11: _pt_to_px replaces every number followed by pt with the number times
\* 1.3333 rounded to two decimals followed by px and leaves all other text
\* unchanged; 'font-size: 12pt;' yields exactly 'font-size: 16px;'.
C11_PtToPxTwelvePointIsSixteenPx ==
  (OnlyCall("_pt_to_px")
     /\ el.style = <<"font-size", ":", " ", "1", "2", "p", "t", ";">>)
    => st = <<"font-size", ":", " ", "1", "6", "p", "x", ";">>

\* a 0.5pt solid border declaration and what it is to become
Hairlines ==
  {[from |-> <<"border", ":", " ", "0", ".", "5", "p", "t", " ", "solid", " ",
               "#000000">>,
    to |-> <<"border", ":", " ", "1", "p", "x", " ", "solid", " ", "#000000">>],
   [from |-> <<"border", "-top", ":", "0", ".", "5", "p", "t", " ", "solid",
               " ", "red">>,
    to |-> <<"border", "-top", ":", " ", "1", "p", "x", " ", "solid", " ",
             "red">>]}

\* C12: after the hairline clamp every 0.5pt solid border declaration of the
\* element, on any side and of any colour, is a 1px solid border of the same
\* colour on the same side, wherever it stood in the style attribute and
\* whether or not the point-to-pixel conversion was applied before.
C12_HairlineBordersClamped ==
  (/\ program = "style functions"
   /\ calls # <<>>
   /\ calls[Len(calls)] = "clamp_hairline_borders"
   /\ st # ValueError) =>
    \A h \in Hairlines :
      h.from \in DeclSet(el.style) =>
        h.to \in DeclSet(st) /\ h.from \notin DeclSet(st)

FontFamilyValue(decl) == SubSeq(decl, 2, Len(decl))

\* C13: map_font_families rewrites the font-family declaration of an element
\* to the stack of the first known office font in the declared family,
\* leaves every other declaration and every element without a known name
\* unchanged, and a second application changes nothing.
C13_FontFamilyRemappedOnly ==
  /\ OnlyCall("map_font_families") =>
       /\ Len(DeclSeq(st)) = Len(DeclSeq(el.style))
       /\ \A i \in 1..Len(DeclSeq(el.style)) :
            LET d == DeclSeq(el.style)[i]
                n == FirstKnownFont(FontFamilyValue(d))
            IN  DeclSeq(st)[i] =
                  IF d[1] = "font-family" /\ n # 0
                  THEN <<"font-family", ":", " ">> \o FONT_MAP[n].repl
                  ELSE d
  /\ (/\ program = "style functions"
      /\ calls = <<"map_font_families", "map_font_families">>)
       => st = map_font_families(el.style)

HasLineHeightDecl(text) == \E d \in DeclSet(text) : d[1] = "line-height"

\* C14: ensure_default_line_height never changes a style that already has a
\* line-height declaration, and afterwards every p, li, div, span and h1-h6
\* element has one, appended after the existing declarations, which are kept.
C14_LineHeightEnsured ==
  OnlyCall("ensure_default_line_height") =>
    /\ HasLineHeightDecl(el.style) => st = el.style
    /\ el.tag \in LineHeightTags =>
         /\ HasLineHeightDecl(st)
         /\ Len(DeclSeq(st)) >= Len(DeclSeq(el.style))
         /\ SubSeq(DeclSeq(st), 1, Len(DeclSeq(el.style))) = DeclSeq(el.style)

\* the style blocks of the content document, in document order
OriginalStyles == FindAll(Decompose(SourceSoup, {"script", "xml"}), {"style"})

\* C15: the fragment is one container whose children are the CSS-bundle
\* style block (only if the bundle is non-empty), then every style block of
\* the content document in document order, then the content subtree; no
\* collected style block is lost or duplicated.
C15_WrapperChildrenInOrder ==
  (program = "main.py" /\ pc \in {"cleanup", "done"}) =>
    /\ Len(wrapper) = 1
    /\ wrapper[1].tag = "div"
    /\ LET kids == wrapper[1].kids
           b == IF HasText(bundled_css_text) THEN 1 ELSE 0
           n == Len(OriginalStyles)
       IN  /\ Len(kids) = b + n + 1
           /\ b = 1 => kids[1] = StyleBlock(bundled_css_text)
           /\ \A i \in 1..n : kids[b + i] = OriginalStyles[i]
           /\ kids[b + n + 1].tag = "div"
           /\ FindAll(kids[b + n + 1].kids, {"style"}) = <<>>

\* the update flow has returned to the event loop after cleaning ran to its end
Called(f) == \E i \in 1..Len(ui.calls) : ui.calls[i] = f
Cleaned == program = "main.py" /\ pc = "returned" /\ wrapper # <<>>
PublisherCalled == Called("requests.post") \/ Called("requests.put")
ErrorShown ==
  \E i \in 1..Len(ui.shown) : ui.shown[i].kind = "critical"

\* the fragment is the bare wrapper: no style block, an empty content div
NoMeaningfulContent ==
  Len(wrapper) = 1 /\ wrapper[1].kids = <<El("div", <<>>)>>

\* C16: when cleaning yields a fragment with no meaningful content (an empty
\* body and no styles), the update ends with an error shown to the user and
\* the publisher is never called.
C16_EmptyResultIsFatal ==
  (Cleaned /\ NoMeaningfulContent) => (ErrorShown /\ ~PublisherCalled)

\* the suffixes rejected by the boxes shown and the exceptions raised
Rejected ==
  {ui.shown[i].msg[j + 1] :
     <<i, j>> \in {x \in (1..Len(ui.shown)) \X (1..3) :
                     /\ x[2] < Len(ui.shown[x[1]].msg)
                     /\ ui.shown[x[1]].msg[x[2]] = "Unsupported file type: "}}

\* C17: a file whose suffix is outside ALLOWED_EXTS is rejected before
\* anything is done (no converter, no cleaning, no upload, no directory
\* made), and no suffix inside ALLOWED_EXTS is rejected.
C17_UnsupportedTypeRejectedFirst ==
  Rejected # {} =>
    /\ Rejected \cap ALLOWED_EXTS = {}
    /\ ui.calls = <<>>
    /\ ui.made = {}

\* perform_upload has shown its failure box: POST or PUT raised
PublisherFailed ==
  \E i \in 1..Len(ui.shown) : ui.shown[i].title = "Upload failed"
\* the except clause of on_update_clicked has reported the error e
Reported(e) ==
  \E i \in 1..Len(ui.shown) :
    ui.shown[i] = Box("critical", "Upload Error", <<"Upload failed:">> \o e)

\* C18: a failure of the converter or of the publisher ends the update as a
\* failure carrying the collaborator's own error; after a publisher failure
\* the flow does not go on to its success path: the confirmation stays
\* checked.
C18_CollaboratorFailureReachesCaller ==
  (program = "main.py" /\ pc = "returned") =>
    /\ PublisherFailed =>
         /\ ui.confirm
         /\ \E e \in PublisherErrors : Reported(e)
    /\ (Len(ui.calls) = 1 /\ ui.calls[1] \in {"convert_word_to_html",
                                              "convert_excel_to_html"}) =>
         \E e \in ConverterErrors : Reported(e)

\* a reader has returned or raised
WasRead == program = "readers" /\ read_out # NotRead
ValidUtf8 == ~Raises(decode(raw_bytes, "utf-8", "strict"))

\* C19: reading never ends in a decoding error; bytes that are valid UTF-8
\* come out as their UTF-8 text without the detector being consulted; other
\* bytes come out as the strict decoding under the detected encoding or, when
\* that fails, as the Latin-1 decoding with replacement.
C19_ReadingNeverFailsUtf8First ==
  WasRead =>
    /\ ~Raises(read_out.out)
    /\ ValidUtf8 =>
         /\ read_out.out = decode(raw_bytes, "utf-8", "strict")
         /\ ~read_out.detected
    /\ ~ValidUtf8 =>
         /\ read_out.detected
         /\ read_out.out \in {decode(raw_bytes, read_out.by, "strict"),
                              decode(raw_bytes, "latin-1", "replace")}

\* the places of the bundled CSS text where the rule of stylesheet f stands
RulePlaces(f) ==
  {i \in 1..Len(bundled_css_text) : bundled_css_text[i] = Tok("rule", f)}

\* C20: the CSS bundle holds each stylesheet file once: a stylesheet that is
\* linked and also lies in the asset directory is not appended a second time
\* by the directory scan, and its text stands once in the bundled CSS.
C20_EachStylesheetOnce ==
  program = "main.py" =>
    /\ \A i, j \in 1..Len(css_bundle) :
         css_bundle[i].file = css_bundle[j].file => i = j
    /\ \A f \in files : Cardinality(RulePlaces(f)) <= 1

\* the sources of the frames of the first frameset that carry a source attribute
FrameSources ==
  LET fsets == FindAll(soup, {"frameset"})
  IN  IF fsets = <<>> THEN <<>>
      ELSE SelectSeq(FindAll(fsets[1].kids, {"frame"}), LAMBDA n : n.ref # <<>>)

\* C23: when a frame of the frameset carries a source attribute the
\* worksheet-source hint is not consulted: the content document is the one
\* the first frame source names, or the frameset document itself.
C23_HintOnlyWithoutFrameSource ==
  (program = "main.py" /\ FramesetHandled /\ FrameSources # <<>>) =>
    sheet_path \in {None, SheetPathFor(FrameSources[1].ref)}

\* the frameset names no existing file: neither the candidate under the
\* document's directory nor its name under <stem>_files is a file
NoResolvableSource ==
  /\ FindAll(soup, {"frameset"}) # <<>>
  /\ Falsy(FrameCandidate) \/ SheetPathFor(FrameCandidate) \notin files

\* C24: a frameset whose frame source and hint name no existing file does
\* not raise: the content is the frameset document itself and the asset
\* directory stays <stem>_files.
C24_UnresolvableFramesetFallsBack ==
  (program = "main.py" /\ FramesetHandled /\ NoResolvableSource) =>
    /\ pc # "raised"
    /\ sheet_path = None
    /\ assets_dir = StemFiles
    /\ pc = "extract" => content_soup = soup

\* the files whose bytes are in the output: those of the data URIs of the
\* images and those of the stylesheet bundle
EmbeddedFiles ==
  {SubSeq(n.ref, 4, Len(n.ref)) :
     n \in {ContentImgs[i] : i \in {j \in 1..Len(ContentImgs) : IsDataUri(ContentImgs[j].ref)}}}
    \cup {css_bundle[i].file : i \in 1..Len(css_bundle)}

IsUnder(dir, p) == Len(p) > Len(dir) /\ SubSeq(p, 1, Len(dir)) = dir

\* C27: every file embedded into the output lies inside the document's
\* directory or the asset directory.
C27_EmbeddedFilesAreContained ==
  program = "main.py" =>
    \A p \in EmbeddedFiles : IsUnder(root_dir, p) \/ IsUnder(assets_dir, p)

\* C28: the removal of empty spans inside p/li elements removes no img
\* element: the img elements of the content after the step are those
\* before it, so each of them reaches the fragment.
C28_EmptySpanRemovalKeepsImages ==
  [][(program = "main.py" /\ pc = "collapse") =>
       FindAll(content', {"img"}) = FindAll(content, {"img"})]_vars

\* the opening tags and the closing tags of an element name in markup
OpeningTags(toks, name) ==
  Cardinality({i \in 1..(Len(toks) - 1) : toks[i].k = "<" /\ toks[i + 1].k = name})
ClosingTags(toks, name) ==
  Cardinality({i \in 1..(Len(toks) - 2) :
                 toks[i].k = "<" /\ toks[i + 1].k = "/" /\ toks[i + 2].k = name})

\* C29: the wrapper-tag pass leaves the tags of every element other than
\* html, head and body in place: the fragment has the opening and the closing
\* tags of a header element that the serialized container has.
C29_OnlyWrapperTagsRemoved ==
  (program = "main.py" /\ pc = "done") =>
    /\ OpeningTags(frag, "header") = OpeningTags(Ser(wrapper), "header")
    /\ ClosingTags(frag, "header") = ClosingTags(Ser(wrapper), "header")

\* two logins with different credentials whose workers both finished with
\* success, every signal handled
BothLoginsFinished ==
  /\ program = "login"
  /\ Len(workers) = 2
  /\ workers[1].account # workers[2].account
  /\ \A w \in 1..2 : workers[w].at = "finished" /\ workers[w].success
  /\ pending = <<>>

\* C30: after two overlapping logins with different credentials the
\* dropdown shows the pages of the second request and self.wp is the client
\* of the second request, in whatever order the workers ran.
C30_LastLoginWins ==
  BothLoginsFinished =>
    /\ wp = WPClient(2, workers[2].account)
    /\ page_combo = list_pages(WPClient(2, workers[2].account))

\* C21: after uploads and an Undo the server accepted, the page Undo wrote
\* is the page the most recent upload overwrote, and the content written is
\* that page's content just before that upload (as stored, or in its
\* rendered form when the site hands out no other).
C21_UndoRestoresLastOverwrite ==
  (program = "upload and undo" /\ undone # NoWrite /\ last_upload # NoWrite)
    => /\ undone.page = last_upload.page
       /\ undone.text \in {last_upload.text, Rendered(last_upload.text)}

\* the calls of perform_upload so far
Attempts ==
  Cardinality({i \in 1..Len(ui.calls) : ui.calls[i] = "perform_upload"})

UndoJustConfirmed ==
  /\ ui.shown # <<>>
  /\ ui.shown[Len(ui.shown)].title = "Undo / Regret"
  /\ ui.shown[Len(ui.shown)].kind \in {"information", "critical"}

\* C26: while the Undo button is enabled the backup file exists and
\* last_page_id is the page its text was fetched from; a confirmed Undo
\* leaves the button disabled.
C26_UndoEnabledMeansBackupOfLastPage ==
  program = "upload and undo" =>
    /\ ui.undo => /\ temp_backup # NoBackup
                  /\ last_page_id # 0
                  /\ temp_backup.page = last_page_id
    /\ UndoJustConfirmed => ~ui.undo

\* C22: unprotect_to_cleartext of a token that protect_cleartext returned
\* gives the text the token was made from, whatever was protected since, in
\* each backend (DPAPI, keyring, base64).
C22_UnprotectReversesProtect ==
  (program = "credentials" /\ recovered # NotRecovered) =>
    recovered.out = issued[recovered.i].text

====
